---- MODULE Spec2Model ----
(***************************************************************************)
(* The WIPE interpreter of the WASP controller sketch                      *)
(* (Arduino_sketches/WASP_Controller_v5.00/WASP_Controller_v5.00.ino):     *)
(* console line -> lexer -> statement compiler -> program buffer / line    *)
(* editor -> EEPROM program directory -> execution engine.                 *)
(*                                                                         *)
(* Bytes and characters are the integers 0..255 (ASCII).  C arrays are     *)
(* functions whose domain starts at 0.  A console line is typed into a     *)
(* zeroed console buffer, so a read past its terminator yields NUL.        *)
(***************************************************************************)
EXTENDS Integers, Sequences, FiniteSets, TLC

(***************************************************************************)
(* Sizes.  EEPROM_RESET_COUNT_ADDR is 4095 on the device; the model scales *)
(* it down and derives the other sizes from it exactly as the sketch does. *)
(* MAX_NUM_SYMBOLS is 200 on the device and scaled down the same way.      *)
(***************************************************************************)
EEPROM_RESET_COUNT_ADDR == 70

MAX_NUM_SYMBOLS == 3

MAX_SERIAL_BUF_LEN == 80

EEPROM_RUNPROG_ADDR == 4

EEPROM_FIRST_OPEN_ADDR == EEPROM_RUNPROG_ADDR + 12

EEPROM_PROG_DIR_START == EEPROM_FIRST_OPEN_ADDR + 1

EEPROM_PROG_LEN == EEPROM_RESET_COUNT_ADDR - EEPROM_PROG_DIR_START

MAX_PROGNAME_LEN == 12

DIR_LEN_OFFS == 0

DIR_NAME_OFFS == 2

DIR_PROG_OFFS == DIR_NAME_OFFS + MAX_PROGNAME_LEN + 1

MAX_PROG_SIZE == EEPROM_RESET_COUNT_ADDR - EEPROM_FIRST_OPEN_ADDR - DIR_PROG_OFFS

MAX_LINE_NUM == 255

MAX_ID_LEN == 4

TKNZD_LINE_OFFS == 0

TKNZD_LEN_OFFS == 1

TKNZD_STMT_OFFS == 2

(***************************************************************************)
(* Token, statement, type and operator codes.                              *)
(***************************************************************************)
WASPCMD_GROUP == 1

WASPCMD_STATE == 2

WASPCMD_BKGRD == 3

WASPCMD_LINE == 4

WASPCMD_SHIFT == 5

WASPCMD_SWAP == 6

WASPCMD_RESET == 7

WASPCMD_SPEED == 8

WASPCMD_RAINBOW == 9

WASPCMD_RAINCYCLE == 10

WASPCMD_TWINKLE == 11

LAST_NONCFG_CMD == WASPCMD_TWINKLE

BROADCASTID == 255

WIPE_UNDEF == 0

WIPE_BASE == LAST_NONCFG_CMD + 1

WIPE_CMD_EXIT == WIPE_BASE + 0

WIPE_CMD_HELP == WIPE_BASE + 1

WIPE_CMD_LINENUM == WIPE_BASE + 2

WIPE_CMD_SAVE == WIPE_BASE + 3

WIPE_CMD_ERASE == WIPE_BASE + 4

WIPE_CMD_DIR == WIPE_BASE + 5

WIPE_CMD_LOAD == WIPE_BASE + 6

WIPE_CMD_LIST == WIPE_BASE + 7

WIPE_CMD_RENUM == WIPE_BASE + 8

WIPE_CMD_DEL == WIPE_BASE + 9

WIPE_CMD_RUN == WIPE_BASE + 10

WIPE_CMD_START == WIPE_BASE + 11

WIPE_CMD_PROF == WIPE_BASE + 12

LAST_WIPE_CMD == WIPE_CMD_PROF

KEY_BASE == LAST_WIPE_CMD + 1

WIPE_FUNC == KEY_BASE + 1

WIPE_LABEL == KEY_BASE + 2

WIPE_GOTO == KEY_BASE + 3

WIPE_IF == KEY_BASE + 4

WIPE_LET == KEY_BASE + 5

WIPE_PRINT == KEY_BASE + 6

WIPE_VAR == KEY_BASE + 7

WIPE_FN_PAUSE == KEY_BASE + 8

WIPE_ID_UNDEF == 0

WIPE_ID_LABEL == 1

WIPE_ID_INT == 2

WIPE_ID_FLOAT == 3

WIPE_ID_BOOL == 4

WIPE_PRT_STR == 0

WIPE_PRT_VAR == 1

WIPE_OP_UNDEF == 0

WIPE_OP_PLUS == 1

WIPE_OP_MINUS == 2

WIPE_OP_MULT == 3

WIPE_OP_DIV == 4

WIPE_OP_MOD == 5

WIPE_OP_NEG == 6

WIPE_OP_COMPL == 7

WIPE_OP_OR == 8

WIPE_OP_AND == 9

WIPE_OP_EQ == 10

WIPE_OP_NE == 11

WIPE_OP_LT == 12

WIPE_OP_LE == 13

WIPE_OP_GT == 14

WIPE_OP_GE == 15

WIPE_OP_DELIM == 16

WIPE_MAX_PARMS == 7

WIPE_OPRND_UNDEF == 0

WIPE_OPRND_LIT == 1

WIPE_OPRND_ID == 2

(***************************************************************************)
(* Characters and C strings.                                               *)
(***************************************************************************)
Printable ==
  << " ", "!", "<dq>", "#", "$", "%", "&", "'", "(", ")", "*", "+", ",", "-",
     ".", "/", "0", "1", "2", "3", "4", "5", "6", "7", "8", "9", ":", ";",
     "<", "=", ">", "?", "@", "A", "B", "C", "D", "E", "F", "G", "H", "I",
     "J", "K", "L", "M", "N", "O", "P", "Q", "R", "S", "T", "U", "V", "W",
     "X", "Y", "Z", "[", "<bs>", "]", "^", "_", "<bq>", "a", "b", "c", "d", "e",
     "f", "g", "h", "i", "j", "k", "l", "m", "n", "o", "p", "q", "r", "s",
     "t", "u", "v", "w", "x", "y", "z", "{", "|", "}", "~" >>

\* ASCII code of a character (space is 32); "<dq>" is the double quote and
\* "<bs>" the backslash.
Ord(c) == 31 + (CHOOSE i \in 1..Len(Printable) : Printable[i] = c)

\* The C string (without its terminator) spelled by a tuple of characters.
Str(t) == [i \in 0..(Len(t) - 1) |-> Ord(t[i + 1])]

\* The characters the interpreter looks for (cCancel is the cancel
\* character 'x').
SP == Ord(" ")

cMinus == Ord("-")

cPlus == Ord("+")

cStar == Ord("*")

cSlash == Ord("/")

cPercent == Ord("%")

cEquals == Ord("=")

cComma == Ord(",")

cRParen == Ord(")")

cLParen == Ord("(")

cBar == Ord("|")

cAmp == Ord("&")

cBang == Ord("!")

cLess == Ord("<")

cGreater == Ord(">")

cDot == Ord(".")

cUnderscore == Ord("_")

cZero == Ord("0")

cNine == Ord("9")

cUpperA == Ord("A")

cUpperZ == Ord("Z")

cLowerA == Ord("a")

cLowerZ == Ord("z")

cCancel == Ord("x")

cLowerN == Ord("n")

cQuote == Ord("<dq>")

cBackslash == Ord("<bs>")

sEquals == Str(<<"=">>)

sColon == Str(<<":">>)

sHexdump == Str(<<"h", "e", "x", "d", "u", "m", "p">>)

NUL == SP - 32

CR == NUL + 13

LF == NUL + 10

\* With([x \in {e} |-> body]) is body with x standing for the value of e,
\* computed once where the code computes it.
With(f) == f[CHOOSE x \in DOMAIN f : TRUE]

\* b[i] of a NUL-terminated buffer: NUL at and past the end of what was typed.
Ch(b, i) == IF i \in DOMAIN b THEN b[i] ELSE NUL

BufLen(b) == Cardinality(DOMAIN b)

isdigit(c) == c \in cZero..cNine

isalnum(c) ==
  \/ isdigit(c)
  \/ c \in cUpperA..cUpperZ
  \/ c \in cLowerA..cLowerZ

\* strspn(&b[p], D): the number of leading characters that are in D.
RECURSIVE strspn(_, _, _)
strspn(b, p, D) == IF Ch(b, p) \in D THEN 1 + strspn(b, p + 1, D) ELSE 0

\* strcspn(&b[p], D): the number of leading characters that are not in D.
RECURSIVE strcspn(_, _, _)
strcspn(b, p, D) ==
  IF Ch(b, p) = NUL \/ Ch(b, p) \in D THEN 0 ELSE 1 + strcspn(b, p + 1, D)

\* strlen(&b[p]).
strlen(b, p) == strcspn(b, p, {})

\* strtok(&b[p], D): the start of the token and length (found = a token exists)
\* and the buffer with the delimiter that ends the token overwritten by NUL.
strtok(b, p, D) ==
  With([s \in {p + strspn(b, p, D)} |->
  With([n \in {strcspn(b, s, D)} |->
      [ found |-> n > 0,
        start |-> s,
        len   |-> n,
        buf   |-> IF n > 0 /\ Ch(b, s + n) # NUL
                    THEN [b EXCEPT ![s + n] = NUL]
                    ELSE b ]])])

\* The n characters of b from s, as a C string.
Sub(b, s, n) == [i \in 0..(n - 1) |-> Ch(b, s + i)]

\* atoi(): optional sign, then the leading decimal digits.
RECURSIVE atoiDigits(_, _, _)
atoiDigits(b, p, acc) ==
  IF isdigit(Ch(b, p))
    THEN atoiDigits(b, p + 1, acc * 10 + (Ch(b, p) - cZero))
    ELSE acc

atoi(b, p) ==
  IF Ch(b, p) = cMinus THEN 0 - atoiDigits(b, p + 1, 0)
  ELSE IF Ch(b, p) = cPlus THEN atoiDigits(b, p + 1, 0)
  ELSE atoiDigits(b, p, 0)

(***************************************************************************)
(* Values.  SymValue_t is a union of a 32-bit integer and a one-byte       *)
(* boolean that shares its low byte (the ATmega is little-endian); the     *)
(* model keeps the union as the int32 it holds.  The float type and        *)
(* literals with a decimal point are compiled but never evaluated by the   *)
(* statements the model's inputs contain.  The values those statements     *)
(* compute stay far inside the int32 range, so no result wraps.            *)
(***************************************************************************)
\* The byte a value narrows to: a (uint8) cast, or the union's boolValue.
LowByte(x) == x % 256

\* The union after a store b into boolValue: only the low byte changes.
SetBool(v, b) == ((v - LowByte(v)) + LowByte(b))

\* What an uninitialised local (dummyValue) or a division by zero may yield.
Garbage == {0, 1, 255}

\* The characters Serial.print writes for a long: its decimal digits, a
\* minus sign first when it is negative.
RECURSIVE printNumber(_)
printNumber(n) ==
  IF n < 10 THEN << cZero + n >>
  ELSE Append(printNumber(n \div 10), cZero + (n % 10))

\* The same in base 16.
RECURSIVE printHexNumber(_)
printHexNumber(n) ==
  IF n < 16 THEN << IF n < 10 THEN cZero + n ELSE cLowerA + (n - 10) >>
  ELSE Append(printHexNumber(n \div 16),
              IF n % 16 < 10 THEN cZero + (n % 16) ELSE cLowerA + ((n % 16) - 10))

SerialPrintHex(n) ==
  IF n < 0 THEN << cMinus >> \o printHexNumber(0 - n) ELSE printHexNumber(n)

SerialPrint(n) == IF n < 0 THEN << cMinus >> \o printNumber(0 - n) ELSE printNumber(n)

\* The characters Serial.print writes for a float whose value is the whole
\* number n: two decimals.
SerialPrintFloat(n) == SerialPrint(n) \o << cDot, cZero, cZero >>

wipeIsRelational(operation) ==
  operation \in { WIPE_OP_EQ, WIPE_OP_NE, WIPE_OP_LT,
                  WIPE_OP_LE, WIPE_OP_GT, WIPE_OP_GE }

Bit(p) == IF p THEN 1 ELSE 0

wipeEvalIntRelation(value1, value2, operation) ==
  CASE operation = WIPE_OP_EQ -> Bit(value1 = value2)
    [] operation = WIPE_OP_NE -> Bit(value1 # value2)
    [] operation = WIPE_OP_LT -> Bit(value1 < value2)
    [] operation = WIPE_OP_LE -> Bit(value1 <= value2)
    [] operation = WIPE_OP_GT -> Bit(value1 > value2)
    [] operation = WIPE_OP_GE -> Bit(value1 >= value2)
    [] OTHER -> 0

wipeEvalBoolRelation(value1, value2, operation) ==
  CASE operation = WIPE_OP_EQ -> Bit(value1 = value2)
    [] operation = WIPE_OP_NE -> Bit(value1 # value2)
    [] OTHER -> 0

\* C division and remainder truncate toward zero.
\* A division that rounds toward minus infinity.
FloorDiv(a, b) == IF b > 0 THEN a \div b ELSE (0 - a) \div (0 - b)

CDiv(a, b) ==
  LET q == (IF a < 0 THEN 0 - a ELSE a) \div (IF b < 0 THEN 0 - b ELSE b)
  IN  IF (a < 0) = (b < 0) THEN q ELSE 0 - q

CMod(a, b) == a - b * CDiv(a, b)

\* [legal, value]: *value1 after the operation; g is what a division by
\* zero leaves.
wipeEvalIntOperation(value1, value2, operation, g) ==
  CASE operation = WIPE_OP_NEG   -> [legal |-> TRUE, value |-> (0 - value1)]
    [] operation = WIPE_OP_PLUS  -> [legal |-> TRUE, value |-> (value1 + value2)]
    [] operation = WIPE_OP_MINUS -> [legal |-> TRUE, value |-> (value1 - value2)]
    [] operation = WIPE_OP_MULT  -> [legal |-> TRUE, value |-> (value1 * value2)]
    [] operation = WIPE_OP_DIV   ->
         [legal |-> TRUE,
          value |-> IF value2 = 0 THEN g ELSE (CDiv(value1, value2))]
    [] operation = WIPE_OP_MOD   ->
         [legal |-> TRUE,
          value |-> IF value2 = 0 THEN g ELSE (CMod(value1, value2))]
    [] OTHER -> [legal |-> FALSE, value |-> value1]

\* On the boolean bytes.  COMPL has no break and falls into OR.
wipeEvalBoolOperation(value1, value2, operation) ==
  CASE operation = WIPE_OP_COMPL ->
         [legal |-> TRUE, value |-> LowByte(Bit(value1 = 0) + value2)]
    [] operation = WIPE_OP_OR  -> [legal |-> TRUE, value |-> LowByte(value1 + value2)]
    [] operation = WIPE_OP_AND -> [legal |-> TRUE, value |-> LowByte(value1 - value2)]
    [] OTHER -> [legal |-> FALSE, value |-> value1]

\* An assignment that lets a boolean take any integer.
AssignAnyInt(varType, value, valType) ==
  IF varType = valType THEN [ok |-> TRUE, value |-> value]
  ELSE IF varType = WIPE_ID_BOOL
    THEN [ok |-> valType = WIPE_ID_INT, value |-> value]
  ELSE IF varType = WIPE_ID_INT
    THEN [ok |-> valType \in {WIPE_ID_BOOL, WIPE_ID_FLOAT}, value |-> value]
  ELSE IF varType = WIPE_ID_FLOAT
    THEN [ok |-> valType \in {WIPE_ID_INT, WIPE_ID_BOOL}, value |-> value]
  ELSE [ok |-> FALSE, value |-> value]

\* [ok, value]: *var after the assignment, value being the variable it had.
wipeAssign(varType, value, valType) ==
  IF varType = valType THEN [ok |-> TRUE, value |-> value]
  ELSE IF varType = WIPE_ID_BOOL
    THEN [ok |-> valType = WIPE_ID_INT /\ value \in {0, 1}, value |-> value]
  ELSE IF varType = WIPE_ID_INT
    THEN [ok |-> valType \in {WIPE_ID_BOOL, WIPE_ID_FLOAT}, value |-> value]
  ELSE IF varType = WIPE_ID_FLOAT
    THEN [ok |-> valType \in {WIPE_ID_INT, WIPE_ID_BOOL}, value |-> value]
  ELSE [ok |-> FALSE, value |-> value]

wipeAreTypesValid(operation, type1, value1, type2, value2, resType) ==
  IF type1 = type2
    THEN \/ resType = type1
         \/ resType = WIPE_ID_BOOL /\ wipeIsRelational(operation)
    ELSE /\ type1 = WIPE_ID_BOOL \/ type2 = WIPE_ID_BOOL
         /\ (IF type1 = WIPE_ID_BOOL THEN value2 ELSE value1) \in {0, 1}
         /\ resType = WIPE_ID_BOOL

(***************************************************************************)
(* The symbol table.  An unused entry (typeId WIPE_ID_UNDEF) is never      *)
(* read, so the model keeps its stale name and value blank.                *)
(***************************************************************************)
NoSymbol == [symbol |-> << >>, typeId |-> WIPE_ID_UNDEF, symValue |-> 0]

SymIdx == 0..(MAX_NUM_SYMBOLS - 1)

\* A table that was cleared except for its first entry.
StaleSymbols ==
  [i \in SymIdx |->
     IF i = 0 THEN [symbol |-> Str(<<"x">>), typeId |-> WIPE_ID_INT, symValue |-> 0]
     ELSE NoSymbol]

wipeSymbolsClear == [i \in SymIdx |-> NoSymbol]

\* strncpy(symbol, identifier, MAX_ID_LEN + 1); symbol[MAX_ID_LEN] = NUL.
SymName(id) == Sub(id, 0, IF BufLen(id) < MAX_ID_LEN THEN BufLen(id) ELSE MAX_ID_LEN)

\* A lookup that finds every name in the first entry.
LookupAny(tbl, id) == [ok |-> TRUE, idx |-> 0]

\* [ok, idx]: the first entry in use whose name matches (the type of the
\* entry is not looked at).
wipeSymbolLookup(tbl, id) ==
  With([hits \in {{ i \in SymIdx : /\ tbl[i].typeId # WIPE_ID_UNDEF
                                           /\ tbl[i].symbol = SymName(id) }} |->
      IF hits = {} THEN [ok |-> FALSE, idx |-> MAX_NUM_SYMBOLS]
      ELSE [ok |-> TRUE, idx |-> CHOOSE i \in hits : \A j \in hits : i <= j]])

\* An insertion that redeclares a known name in place.
InsertOrRedeclare(tbl, id, type) ==
  With([dup \in {{ i \in SymIdx : /\ tbl[i].typeId # WIPE_ID_UNDEF
                                 /\ tbl[i].symbol = id }} |->
  With([free \in {{ i \in SymIdx : tbl[i].typeId = WIPE_ID_UNDEF }} |->
      IF dup \cup free # {}
        THEN With([f \in {CHOOSE i \in dup \cup free : \A j \in dup \cup free : i <= j} |->
               [ok |-> TRUE, idx |-> f,
                tbl |-> [tbl EXCEPT ![f] = [symbol |-> SymName(id), typeId |-> type,
                                            symValue |-> 0]]]])
      ELSE [ok |-> FALSE, idx |-> MAX_NUM_SYMBOLS, tbl |-> tbl]])])

\* [ok, idx, tbl].  A known name fails with its index; a full table fails
\* with idx = MAX_NUM_SYMBOLS.
wipeSymbolInsert(tbl, id, type) ==
  With([dup \in {{ i \in SymIdx : /\ tbl[i].typeId # WIPE_ID_UNDEF
                                 /\ tbl[i].symbol = id }} |->
  With([free \in {{ i \in SymIdx : tbl[i].typeId = WIPE_ID_UNDEF }} |->
      IF dup # {}
        THEN [ok |-> FALSE, idx |-> CHOOSE i \in dup : \A j \in dup : i <= j,
              tbl |-> tbl]
      ELSE IF free # {}
        THEN With([f \in {CHOOSE i \in free : \A j \in free : i <= j} |->
               [ok |-> TRUE, idx |-> f,
                tbl |-> [tbl EXCEPT ![f] = [symbol |-> SymName(id), typeId |-> type,
                                            symValue |-> 0]]]])
      ELSE [ok |-> FALSE, idx |-> MAX_NUM_SYMBOLS, tbl |-> tbl]])])


(***************************************************************************)
(* Expression scanners.  b is the character buffer (the token buffer when  *)
(* a line is compiled, the program buffer when it is executed) and p the   *)
(* index *ppPos.                                                           *)
(***************************************************************************)
OperandEnds == {SP, NUL, cComma, cRParen}

\* The loop of wipeScanOperand over the operand's characters from index j:
\* the index of the character that ends the operand, or -1 on a bad one.
RECURSIVE ScanOperandChars(_, _, _, _)
ScanOperandChars(b, j, kind, foundDecPoint) ==
  With([c \in {Ch(b, j)} |->
      IF c \in OperandEnds THEN j
      ELSE IF kind = WIPE_OPRND_LIT
        THEN IF ~isdigit(c) /\ c # cDot THEN 0 - 1
             ELSE IF c = cDot /\ foundDecPoint THEN 0 - 1
             ELSE ScanOperandChars(b, j + 1, kind, foundDecPoint \/ c = cDot)
        ELSE IF ~isalnum(c) /\ c # cUnderscore THEN 0 - 1
             ELSE ScanOperandChars(b, j + 1, kind, foundDecPoint)])

\* [ok, kind, start, len, scanLen, unary, pos, err]; err: a message was shown.
wipeScanOperand(b, p) ==
  With([i0 \in {p + strspn(b, p, {SP})} |->
  With([c0 \in {Ch(b, i0)} |->
  With([unary \in {IF c0 = cMinus THEN WIPE_OP_NEG
                            ELSE IF c0 = cBang THEN WIPE_OP_COMPL ELSE WIPE_OP_UNDEF} |->
  With([start \in {IF unary = WIPE_OP_UNDEF THEN i0 ELSE i0 + 1} |->
  With([c1 \in {Ch(b, start)} |->
  With([kind \in {IF isdigit(c1) THEN WIPE_OPRND_LIT ELSE WIPE_OPRND_ID} |->
  With([e \in {ScanOperandChars(b, IF kind = WIPE_OPRND_LIT THEN start + 1 ELSE start,
                                         kind, FALSE)} |->
  With([uerr \in {unary # WIPE_OP_UNDEF /\ c1 = SP} |->
  LET fail(k, er) == [ok |-> FALSE, kind |-> k, start |-> start, len |-> 0,
                      scanLen |-> 0, unary |-> unary, pos |-> p, err |-> er]
  IN
      IF c0 = NUL THEN fail(WIPE_OPRND_UNDEF, FALSE)
      ELSE IF e < 0 THEN fail(kind, TRUE)
      ELSE IF kind # WIPE_OPRND_LIT /\ e - start > MAX_ID_LEN THEN fail(kind, TRUE)
      ELSE [ok |-> TRUE, kind |-> kind, start |-> start, len |-> e - start,
            scanLen |-> e - p, unary |-> unary, pos |-> e, err |-> uerr]])])])])])])])])

\* [ok, kind, scanLen, pos].
wipeScanOperator(b, p) ==
  With([i0 \in {p + strspn(b, p, {SP})} |->
  With([c \in {Ch(b, i0)} |->
  With([n1 \in {Ch(b, i0 + 1)} |->
  With([n2 \in {Ch(b, i0 + 2)} |->
  With([bad \in {[ok |-> FALSE, kind |-> WIPE_OP_UNDEF, scanLen |-> (i0 + 1) - p,
                            pos |-> i0 + 1]} |->
  LET one(k) == [ok |-> TRUE, kind |-> k, scanLen |-> (i0 + 1) - p, pos |-> i0 + 1]
      two(k) == [ok |-> TRUE, kind |-> k, scanLen |-> (i0 + 2) - p, pos |-> i0 + 2]
  IN
      CASE c \in {CR, NUL} ->
             [ok |-> TRUE, kind |-> WIPE_OP_UNDEF, scanLen |-> 0, pos |-> p]
        [] c = cPlus -> one(WIPE_OP_PLUS)
        [] c = cMinus -> one(WIPE_OP_MINUS)
        [] c = cStar -> one(WIPE_OP_MULT)
        [] c = cSlash -> one(WIPE_OP_DIV)
        [] c = cPercent -> one(WIPE_OP_MOD)
        [] c = cEquals -> one(WIPE_OP_EQ)
        [] c \in {cComma, cRParen} -> one(WIPE_OP_DELIM)
        [] c = cBar ->
             IF n1 = cBar /\ n2 = SP THEN two(WIPE_OP_OR) ELSE bad
        [] c = cAmp ->
             IF n1 = cAmp /\ n2 = SP THEN two(WIPE_OP_AND) ELSE bad
        [] c = cBang -> IF n1 = cEquals THEN two(WIPE_OP_NE) ELSE bad
        [] c = cLess ->
             IF n1 = SP THEN one(WIPE_OP_LT)
             ELSE IF n1 = cEquals /\ n2 = SP THEN two(WIPE_OP_LE) ELSE bad
        [] c = cGreater ->
             IF n1 = SP THEN one(WIPE_OP_GT)
             ELSE IF n1 = cEquals /\ n2 = SP THEN two(WIPE_OP_GE) ELSE bad
        [] OTHER -> bad])])])])])

\* The integer part of a literal: the digits up to a decimal point, as the
\* uint32 accumulation leaves them in the union.
RECURSIVE LitValue(_, _, _, _)
LitValue(b, s, n, acc) ==
  IF n = 0 \/ Ch(b, s) = cDot THEN acc
  ELSE LitValue(b, s + 1, n - 1, (acc * 10 + (Ch(b, s) - cZero)))

LitType(b, s, n) ==
  IF \E i \in 0..(n - 1) : Ch(b, s + i) = cDot THEN WIPE_ID_FLOAT ELSE WIPE_ID_INT

\* The operand's type and value when the expression is evaluated, unary
\* operator applied: [ok, type, value, err].  g stands for dummyValue.
EvalOperand(b, o, tbl, g) ==
  With([look \in {wipeSymbolLookup(tbl, Sub(b, o.start, o.len))} |->
  With([isId \in {o.kind = WIPE_OPRND_ID} |->
      IF isId /\ ~look.ok
        THEN [ok |-> FALSE, type |-> WIPE_ID_UNDEF, value |-> 0, err |-> TRUE]
      ELSE
  With([type0 \in {IF isId THEN tbl[look.idx].typeId
                           ELSE LitType(b, o.start, o.len)} |->
  With([val0 \in {IF isId THEN tbl[look.idx].symValue
                          ELSE LitValue(b, o.start, o.len, 0)} |->
      IF o.unary = WIPE_OP_UNDEF
        THEN [ok |-> TRUE, type |-> type0, value |-> val0, err |-> FALSE]
      ELSE IF type0 = WIPE_ID_INT
        THEN With([iop \in {wipeEvalIntOperation(val0, g, o.unary, g)} |->
               [ok |-> TRUE, type |-> type0, value |-> iop.value, err |-> ~iop.legal]])
      ELSE IF type0 = WIPE_ID_BOOL
        THEN With([bop \in {wipeEvalBoolOperation(LowByte(val0), LowByte(g), o.unary)} |->
               [ok |-> TRUE, type |-> type0, value |-> SetBool(val0, bop.value),
                err |-> ~bop.legal]])
      ELSE [ok |-> FALSE, type |-> type0, value |-> val0, err |-> TRUE]])])])])

\* The intermediate result oprndValue1 after a binary operator:
\* [ok, value, err].
EvalBinary(operation, type1, value1, type2, value2, type, g) ==
      IF ~wipeAreTypesValid(operation, type1, value1, type2, value2, type)
        THEN [ok |-> FALSE, value |-> value1, err |-> TRUE]
      ELSE IF type = WIPE_ID_BOOL
        THEN IF ~wipeIsRelational(operation)
               THEN [ok |-> TRUE, value |-> value1, err |-> FALSE]
             ELSE IF type1 = WIPE_ID_INT
               THEN [ok |-> TRUE, err |-> FALSE,
                     value |-> wipeEvalIntRelation(value1, value2, operation)]
             ELSE IF type1 = WIPE_ID_BOOL
               THEN [ok |-> TRUE, err |-> FALSE,
                     value |-> SetBool(value1,
                                 wipeEvalBoolRelation(LowByte(value1),
                                                      LowByte(value2), operation))]
             ELSE [ok |-> FALSE, value |-> value1, err |-> TRUE]
      ELSE IF type1 = WIPE_ID_INT
        THEN With([iop \in {wipeEvalIntOperation(value1, value2, operation, g)} |->
               [ok |-> TRUE, value |-> iop.value, err |-> ~iop.legal]])
      ELSE IF type1 = WIPE_ID_BOOL
        THEN With([bop \in {wipeEvalBoolOperation(LowByte(value1), LowByte(value2),
                                                 operation)} |->
               [ok |-> TRUE, value |-> SetBool(value1, bop.value), err |-> ~bop.legal]])
      ELSE [ok |-> FALSE, value |-> value1, err |-> TRUE]

\* The loop of wipeParseExpression from index p with m_exprOffs = offs.
\* type = WIPE_ID_UNDEF only checks the syntax.  [ok, exprOffs, value, err].
RECURSIVE ParseExprLoop(_, _, _, _, _, _, _, _, _, _, _, _)
ParseExprLoop(b, p, offs, firstOprnd, operation, value1, type1, type, listOk, tbl, g, err) ==
  With([o \in {wipeScanOperand(b, p)} |->
      IF ~o.ok THEN [ok |-> FALSE, exprOffs |-> offs, value |-> 0, err |-> err \/ o.err]
      ELSE
  With([ev \in {IF type = WIPE_ID_UNDEF
                  THEN [ok |-> TRUE, type |-> WIPE_ID_UNDEF, value |-> 0, err |-> FALSE]
                  ELSE EvalOperand(b, o, tbl, g)} |->
      IF ~ev.ok THEN [ok |-> FALSE, exprOffs |-> offs, value |-> 0, err |-> TRUE]
      ELSE
  With([bin \in {IF type = WIPE_ID_UNDEF \/ firstOprnd
                   THEN [ok |-> TRUE, value |-> ev.value, err |-> FALSE]
                   ELSE EvalBinary(operation, type1, value1, ev.type, ev.value,
                                   type, g)} |->
      IF ~bin.ok THEN [ok |-> FALSE, exprOffs |-> offs, value |-> 0, err |-> TRUE]
      ELSE
  With([t1 \in {IF firstOprnd THEN ev.type ELSE type1} |->
  With([op \in {wipeScanOperator(b, o.pos)} |->
  With([offs2 \in {offs + o.scanLen + op.scanLen} |->
  With([e2 \in {err \/ o.err \/ ev.err \/ bin.err} |->
  With([fail \in {[ok |-> FALSE, exprOffs |-> offs2, value |-> 0, err |-> TRUE]} |->
      IF ~op.ok THEN fail
      ELSE IF ~listOk /\ op.kind = WIPE_OP_DELIM THEN fail
      ELSE IF op.kind \in {WIPE_OP_UNDEF, WIPE_OP_DELIM}
        THEN IF type = WIPE_ID_UNDEF
               THEN [ok |-> TRUE, exprOffs |-> offs2, value |-> 0, err |-> e2]
             ELSE With([res \in {wipeAssign(type, bin.value, t1)} |->
                    IF ~res.ok THEN fail
                    ELSE [ok |-> TRUE, exprOffs |-> offs2, value |-> res.value,
                          err |-> e2]])
      ELSE ParseExprLoop(b, op.pos, offs2, FALSE, op.kind, bin.value, t1, type,
                         listOk, tbl, g, e2)])])])])])])])])

wipeParseExpression(b, p, type, listOk, tbl, g) ==
  ParseExprLoop(b, p, 0, TRUE, WIPE_OP_UNDEF, 0, WIPE_ID_UNDEF, type, listOk,
                tbl, g, FALSE)


(***************************************************************************)
(* The lexer over a console line.  cons is m_consoleBuffer (the line as    *)
(* typed), tok is m_tokenBuffer (its copy, which strtok cuts into tokens), *)
(* pos is m_consolePos and len is m_consoleLen.                            *)
(***************************************************************************)
Blank == {SP, LF}

IntDelims == {SP, cComma, CR}

IntChars == {cPlus, cMinus} \cup (cZero..cNine)

\* [ok, val, tok, pos].
wipeParseInt(tok, pos, len, advance) ==
  With([tmp \in {strspn(tok, pos, IntDelims)} |->
  With([t \in {strtok(tok, pos, IntDelims)} |->
  With([num \in {/\ t.found
                 /\ strspn(t.buf, t.start, IntChars) = t.len
                 /\ t.len > 1 \/ Ch(t.buf, t.start) \notin {cPlus, cMinus}} |->
      IF pos >= len THEN [ok |-> FALSE, val |-> 0, tok |-> tok, pos |-> pos]
      ELSE IF num
        THEN [ok |-> TRUE, val |-> atoi(t.buf, t.start), tok |-> t.buf,
              pos |-> IF advance THEN pos + t.len + tmp + 1 ELSE pos]
      ELSE [ok |-> FALSE, val |-> 0, tok |-> t.buf, pos |-> pos]])])])

Keywords ==
  << <<Str(<<"i", "f">>), WIPE_IF>>,
     <<Str(<<"g", "o", "t", "o">>), WIPE_GOTO>>,
     <<Str(<<"l", "a", "b", "e", "l">>), WIPE_LABEL>>,
     <<Str(<<"l", "e", "t">>), WIPE_LET>>,
     <<Str(<<"v", "a", "r">>), WIPE_VAR>>,
     <<Str(<<"p", "r", "i", "n", "t">>), WIPE_PRINT>> >>

Functions ==
  << <<Str(<<"B", "k", "g", "r", "d">>), WASPCMD_BKGRD>>,
     <<Str(<<"G", "r", "o", "u", "p">>), WASPCMD_GROUP>>,
     <<Str(<<"L", "i", "n", "e">>), WASPCMD_LINE>>,
     <<Str(<<"R", "e", "s", "e", "t">>), WASPCMD_RESET>>,
     <<Str(<<"S", "t", "a", "t", "e">>), WASPCMD_STATE>>,
     <<Str(<<"S", "h", "i", "f", "t">>), WASPCMD_SHIFT>>,
     <<Str(<<"S", "w", "a", "p">>), WASPCMD_SWAP>>,
     <<Str(<<"R", "a", "i", "n">>), WASPCMD_RAINBOW>>,
     <<Str(<<"C", "y", "c", "l", "e">>), WASPCMD_RAINCYCLE>>,
     <<Str(<<"S", "p", "e", "e", "d">>), WASPCMD_SPEED>>,
     <<Str(<<"T", "w", "i", "n", "k", "l", "e">>), WASPCMD_TWINKLE>>,
     <<Str(<<"P", "a", "u", "s", "e">>), WIPE_FN_PAUSE>> >>

Commands ==
  << <<Str(<<"d", "e", "l">>), WIPE_CMD_DEL>>,
     <<Str(<<"d", "i", "r">>), WIPE_CMD_DIR>>,
     <<Str(<<"e", "r", "a", "s", "e">>), WIPE_CMD_ERASE>>,
     <<Str(<<"e", "x", "i", "t">>), WIPE_CMD_EXIT>>,
     <<Str(<<"h", "e", "l", "p">>), WIPE_CMD_HELP>>,
     <<Str(<<"l", "i", "s", "t">>), WIPE_CMD_LIST>>,
     <<Str(<<"l", "o", "a", "d">>), WIPE_CMD_LOAD>>,
     <<Str(<<"p", "r", "o", "f">>), WIPE_CMD_PROF>>,
     <<Str(<<"r", "e", "n", "u", "m">>), WIPE_CMD_RENUM>>,
     <<Str(<<"r", "u", "n">>), WIPE_CMD_RUN>>,
     <<Str(<<"s", "a", "v", "e">>), WIPE_CMD_SAVE>>,
     <<Str(<<"s", "t", "a", "r", "t">>), WIPE_CMD_START>> >>

\* The code a word has in a table of <<word, code>> pairs, else WIPE_UNDEF.
WordCode(table, w) ==
  With([ks \in {{ k \in 1..Len(table) : table[k][1] = w }} |->
      IF ks = {} THEN WIPE_UNDEF ELSE table[CHOOSE k \in ks : TRUE][2]])

\* [id, tok, pos].
wipeScanToken(cons, tok, pos, len) ==
  With([tmp \in {strspn(tok, pos, Blank)} |->
  With([t \in {strtok(tok, pos, Blank \cup {cLParen})} |->
  With([w \in {Sub(t.buf, t.start, t.len)} |->
  With([pos2 \in {pos + tmp + t.len + 1} |->
  With([key \in {WordCode(Keywords, w)} |->
      IF pos >= len THEN [id |-> WIPE_UNDEF, tok |-> tok, pos |-> pos]
      ELSE IF ~t.found THEN [id |-> WIPE_UNDEF, tok |-> t.buf, pos |-> pos + tmp]
      ELSE IF key # WIPE_UNDEF THEN [id |-> key, tok |-> t.buf, pos |-> pos2]
      ELSE IF Ch(cons, pos2 - 1) # cLParen
        THEN [id |-> WIPE_UNDEF, tok |-> t.buf, pos |-> pos2]
      ELSE [id |-> WordCode(Functions, w), tok |-> t.buf, pos |-> pos2]])])])])])

\* [n, start, tok, pos]: n is the identifier's length (0: none), start its
\* index in tok.
wipeScanIdentifier(tok, pos, len, maxLen) ==
  With([tmp \in {strspn(tok, pos, Blank)} |->
  With([t \in {strtok(tok, pos, Blank)} |->
  With([bad \in {\/ \E i \in 0..(t.len - 1) :
                       \E c \in {Ch(t.buf, t.start + i)} : ~isalnum(c) /\ c # cUnderscore
                 \/ isdigit(Ch(t.buf, t.start))
                 \/ t.len > maxLen} |->
      IF pos >= len THEN [n |-> 0, start |-> pos, tok |-> tok, pos |-> pos]
      ELSE IF ~t.found THEN [n |-> 0, start |-> pos, tok |-> t.buf, pos |-> pos + tmp]
      ELSE [n |-> IF bad THEN 0 ELSE t.len, start |-> t.start, tok |-> t.buf,
            pos |-> pos + tmp + t.len + 1]])])])

\* [token, tok, pos].
wipeScanCommand(tok, pos, len) ==
  With([tmp \in {strspn(tok, pos, Blank)} |->
  With([t \in {strtok(tok, pos, Blank \cup {cLParen})} |->
  With([w \in {Sub(t.buf, t.start, t.len)} |->
  With([cmd \in {WordCode(Commands, w)} |->
  With([int \in {wipeParseInt(t.buf, pos + tmp, len, FALSE)} |->
      IF pos >= len THEN [token |-> WIPE_UNDEF, tok |-> tok, pos |-> pos]
      ELSE IF ~t.found THEN [token |-> WIPE_UNDEF, tok |-> t.buf, pos |-> pos + tmp]
      ELSE IF cmd # WIPE_UNDEF
        THEN [token |-> cmd, tok |-> t.buf, pos |-> pos + tmp + t.len + 1]
      ELSE IF w = sHexdump
        THEN [token |-> WIPE_UNDEF, tok |-> t.buf, pos |-> pos + tmp + t.len + 1]
      ELSE IF int.ok
        THEN [token |-> WIPE_CMD_LINENUM, tok |-> int.tok, pos |-> pos + tmp]
      ELSE [token |-> WIPE_UNDEF, tok |-> int.tok, pos |-> 0]])])])])])

wipeFuncGetParmNum(funcId) ==
  CASE funcId = WASPCMD_GROUP     -> 4
    [] funcId = WASPCMD_STATE     -> 2
    [] funcId = WASPCMD_BKGRD     -> 4
    [] funcId = WASPCMD_LINE      -> 6
    [] funcId = WASPCMD_SHIFT     -> 2
    [] funcId = WASPCMD_SWAP      -> 7
    [] funcId = WASPCMD_RESET     -> 1
    [] funcId = WASPCMD_SPEED     -> 2
    [] funcId = WASPCMD_RAINBOW   -> 2
    [] funcId = WASPCMD_RAINCYCLE -> 1
    [] funcId = WASPCMD_TWINKLE   -> 5
    [] funcId = WIPE_FN_PAUSE     -> 3
    [] OTHER -> 0


(***************************************************************************)
(* The program buffer m_program[MAX_PROG_SIZE].  A store at an index past  *)
(* the array does not reach the array; a load from there yields whatever   *)
(* the neighbouring memory holds (g).                                      *)
(***************************************************************************)
ProgIdx == 0..(MAX_PROG_SIZE - 1)

Rd(prog, i, g) == IF i \in ProgIdx THEN prog[i] ELSE g

\* The characters a print string stores, from index j of the token buffer
\* with parmsLen = n: [n, out]; n = maxLen when no closing quote was found.
RECURSIVE PrintChars(_, _, _, _, _)
PrintChars(tok, j, n, maxLen, out) ==
  IF n >= maxLen THEN [n |-> n, out |-> out]
  ELSE IF Ch(tok, j) = cQuote THEN [n |-> n, out |-> out]
  ELSE IF Ch(tok, j) = cBackslash /\ Ch(tok, j + 1) = cLowerN
    THEN PrintChars(tok, j + 2, n + 2, maxLen, Append(out, LF))
  ELSE PrintChars(tok, j + 1, n + 1, maxLen, Append(out, Ch(tok, j)))

\* The parameter loop of a function call from index pos with i parameters
\* left: [ok, pos, parmsLen].
RECURSIVE ParseParms(_, _, _, _)
ParseParms(tok, pos, i, parmsLen) ==
  IF i = 0 THEN [ok |-> TRUE, pos |-> pos, parmsLen |-> parmsLen]
  ELSE
  With([e \in {wipeParseExpression(tok, pos, WIPE_ID_UNDEF, TRUE, wipeSymbolsClear, 0)} |->
      IF ~e.ok THEN [ok |-> FALSE, pos |-> pos, parmsLen |-> parmsLen]
      ELSE IF i > 1 /\ Ch(tok, pos + e.exprOffs - 1) \notin {cComma, cRParen}
        THEN [ok |-> FALSE, pos |-> pos, parmsLen |-> parmsLen]
      ELSE ParseParms(tok, pos + e.exprOffs, i - 1, parmsLen + e.exprOffs)])

TypeNames ==
  << <<Str(<<"l", "a", "b", "e", "l">>), WIPE_ID_LABEL>>,
     <<Str(<<"i", "n", "t">>), WIPE_ID_INT>>,
     <<Str(<<"f", "l", "o", "a", "t">>), WIPE_ID_FLOAT>>,
     <<Str(<<"b", "o", "o", "l">>), WIPE_ID_BOOL>> >>

\* The n characters of b from s, as a sequence of bytes.
Bytes(b, s, n) == [k \in 1..n |-> Ch(b, s + k - 1)]

\* Stores that land at the start of the buffer instead of at the cursor.
WrSeqAtStart(prog, at, q) ==
  [i \in ProgIdx |-> IF i < Len(q) THEN q[i + 1] ELSE prog[i]]

\* memcpy/strcpy into the program buffer: the bytes q stored from at on.
WrSeq(prog, at, q) ==
  [i \in ProgIdx |-> IF i >= at /\ i < at + Len(q) THEN q[i - at + 1] ELSE prog[i]]

\* One statement compiled at m_wipeLineStart (where m_wipeProgByte stands
\* when the line is complete).  Every byte wipeParseStatement stores lies
\* at m_wipeLineStart + 0, 1, 2, ... without a gap, so its outcome is
\* [ok, bytes, end]: the bytes stored from m_wipeLineStart on (on success
\* the record, with its length byte set; on failure what was stored before
\* the error), and end = m_wipeProgByte - m_wipeLineStart on return.
wipeParseStatement(lineNum, initToken, cons, tok0, pos0, len) ==
  With([st \in {IF initToken # WIPE_UNDEF
                  THEN [id |-> initToken, tok |-> tok0, pos |-> pos0]
                  ELSE wipeScanToken(cons, tok0, pos0, len)} |->
  With([hdr \in {<<lineNum, 3, st.id>>} |->
  LET fail(q) == [ok |-> FALSE, bytes |-> q, end |-> Len(q)]
      done(q, end, lenByte) ==
        [ok |-> TRUE, bytes |-> [q EXCEPT ![1 + TKNZD_LEN_OFFS] = lenByte % 256],
         end |-> end]
      expr(q, pos, tk) ==
        With([e \in {wipeParseExpression(tk, pos, WIPE_ID_UNDEF, FALSE,
                                         wipeSymbolsClear, 0)} |->
            IF ~e.ok THEN fail(q)
            ELSE done(q \o Bytes(cons, pos, e.exprOffs + 1),
                      Len(q) + e.exprOffs, Len(q) + e.exprOffs + 1)])
      \* the identifier of goto, label, let, var and print: strcpy of the
      \* identifier, with its terminator
      named(id) == hdr \o Bytes(id.tok, id.start, id.n) \o <<NUL>>
  IN
      CASE st.id = WIPE_UNDEF -> fail(<< >>)
        [] st.id = WIPE_IF -> expr(hdr, st.pos, st.tok)
        [] st.id \in {WIPE_GOTO, WIPE_LABEL} ->
             With([id \in {wipeScanIdentifier(st.tok, st.pos, len, MAX_ID_LEN)} |->
             With([q \in {named(id)} |->
                 IF id.n = 0 THEN fail(hdr)
                 ELSE done(q, Len(q), Len(q))])])
        [] st.id = WIPE_LET ->
             With([id \in {wipeScanIdentifier(st.tok, st.pos, len, MAX_ID_LEN)} |->
                 IF id.n = 0 THEN fail(hdr)
                 ELSE
             \* the "=" of let
             With([sep \in {strtok(id.tok, id.pos, Blank)} |->
             With([spos \in {id.pos + strspn(id.tok, id.pos, Blank) + 1 + sep.len} |->
                 IF Sub(sep.buf, sep.start, sep.len) # sEquals THEN fail(named(id))
                 ELSE expr(named(id), spos, sep.buf)])])])
        [] st.id = WIPE_PRINT ->
             IF Ch(cons, st.pos) = cQuote
               THEN With([maxLen \in {MAX_SERIAL_BUF_LEN - (st.pos + 1) - 1} |->
                    With([pc \in {PrintChars(st.tok, st.pos + 1, 0, maxLen, << >>)} |->
                    With([pstr \in {hdr \o <<WIPE_PRT_STR>> \o pc.out} |->
                        IF pc.n = maxLen THEN fail(pstr)
                        ELSE done(pstr \o <<NUL>>, Len(pstr) + 1, Len(pstr) + 1)])])])
               ELSE With([id \in {wipeScanIdentifier(st.tok, st.pos, len, MAX_ID_LEN)} |->
                    With([q \in {hdr \o <<WIPE_PRT_VAR>>
                                     \o Bytes(id.tok, id.start, id.n) \o <<NUL>>} |->
                        IF id.n = 0 THEN fail(hdr \o <<WIPE_PRT_VAR>>)
                        ELSE done(q, Len(q), Len(q))])])
        [] st.id = WIPE_VAR ->
             With([id \in {wipeScanIdentifier(st.tok, st.pos, len, MAX_ID_LEN)} |->
                 IF id.n = 0 THEN fail(hdr)
                 ELSE
             \* the ":" of var
             With([sep \in {strtok(id.tok, id.pos, Blank)} |->
             With([spos \in {id.pos + strspn(id.tok, id.pos, Blank) + 1 + sep.len} |->
                 IF Sub(sep.buf, sep.start, sep.len) # sColon THEN fail(hdr)
                 ELSE
             With([ty \in {wipeScanIdentifier(sep.buf, spos, len, 10)} |->
             With([tyId \in {WordCode(TypeNames, Sub(ty.tok, ty.start, ty.n))} |->
             With([q \in {named(id)} |->
                 IF ty.n = 0 \/ tyId = WIPE_ID_UNDEF THEN fail(hdr)
                 ELSE done(q \o <<tyId>>, Len(q) + 1, Len(q) + 1)])])])])])])
        [] OTHER ->
             With([numParms \in {wipeFuncGetParmNum(st.id)} |->
             With([fhdr \in {<<lineNum, 3, WIPE_FUNC, st.id, numParms>>} |->
             With([pp \in {ParseParms(st.tok, st.pos, numParms, 0)} |->
             With([fend \in {Len(fhdr) + pp.parmsLen + 1} |->
                 IF ~pp.ok \/ Ch(st.tok, pp.pos - 1) # cRParen THEN fail(fhdr)
                 ELSE done(fhdr \o Bytes(cons, st.pos - 1, pp.parmsLen + 1) \o <<NUL>>,
                           fend, fend + 1)])])])])])])

(***************************************************************************)
(* The line editor.                                                        *)
(***************************************************************************)
\* [pos, lineExists], scanning from currPos with m_wipeProgByte = progByte.
\* (A record of length zero would keep the C loop at the same line for ever;
\* the compiler writes none, and the scan stops there.)
RECURSIVE SeekFrom(_, _, _, _, _)
SeekFrom(prog, progByte, targetNum, currPos, g) ==
  IF ~(currPos < MAX_PROG_SIZE /\ currPos < progByte)
    THEN [pos |-> MAX_PROG_SIZE, lineExists |-> FALSE]
  ELSE IF prog[currPos + TKNZD_LINE_OFFS] = targetNum
    THEN [pos |-> currPos, lineExists |-> TRUE]
  ELSE IF prog[currPos + TKNZD_LINE_OFFS] < targetNum
            /\ Rd(prog, currPos + TKNZD_LEN_OFFS, g) > 0
    THEN SeekFrom(prog, progByte, targetNum,
                  currPos + Rd(prog, currPos + TKNZD_LEN_OFFS, g), g)
  ELSE [pos |-> currPos, lineExists |-> FALSE]

\* wipeSeekLineStart that always answers the start of the buffer.
SeekBufferStart(prog, progByte, targetNum, g) == [pos |-> 0, lineExists |-> FALSE]

wipeSeekLineStart(prog, progByte, targetNum, g) ==
  SeekFrom(prog, progByte, targetNum, 0, g)

\* [prog, lineStart, progByte] after the line at at is closed up.
DeleteKeepsLength(prog, ls, progByte, at, lineLen, g) ==
  [prog |-> [k \in ProgIdx |->
               IF k >= at /\ k < at + (progByte - lineLen + 1)
                 THEN Rd(prog, k + lineLen, g) ELSE prog[k]],
   lineStart |-> ls, progByte |-> progByte]

wipeDeleteLine(prog, ls, progByte, at, lineLen, g) ==
  With([numBytesToMove \in {progByte - lineLen + 1} |->
  With([step \in {Rd(prog, at + TKNZD_LEN_OFFS, g)} |->
      [ prog |-> [k \in ProgIdx |->
                    IF k >= at /\ k < at + numBytesToMove
                      THEN Rd(prog, k + step, g) ELSE prog[k]],
        lineStart |-> ls - lineLen,
        progByte  |-> progByte - lineLen ]])])

\* A delete that stops after the first line of the range.
DelFirst(prog, ls, progByte, at, upper, g) ==
  IF at < progByte /\ Rd(prog, at + TKNZD_LINE_OFFS, g) <= upper
    THEN wipeDeleteLine(prog, ls, progByte, at, Rd(prog, at + TKNZD_LEN_OFFS, g), g)
    ELSE [prog |-> prog, lineStart |-> ls, progByte |-> progByte]

\* The loop of wipeDelLines: [prog, lineStart, progByte].
RECURSIVE DelLoop(_, _, _, _, _, _)
DelLoop(prog, ls, progByte, at, upper, g) ==
  IF at < progByte /\ Rd(prog, at + TKNZD_LINE_OFFS, g) <= upper
       /\ Rd(prog, at + TKNZD_LEN_OFFS, g) > 0
    THEN With([d \in {wipeDeleteLine(prog, ls, progByte, at,
                                     Rd(prog, at + TKNZD_LEN_OFFS, g), g)} |->
           DelLoop(d.prog, d.lineStart, d.progByte, at, upper, g)])
    ELSE [prog |-> prog, lineStart |-> ls, progByte |-> progByte]

wipeDelLines(prog, ls, progByte, lower, upper, g) ==
  DelLoop(prog, ls, progByte, wipeSeekLineStart(prog, progByte, lower, g).pos,
          upper, g)

\* The lowest line number renum gives.
LOWEST_LINE_NUM == 5

\* What the integer division by zero of wipeRenumLines does: the C language
\* leaves it undefined, so it either does not return or leaves some quotient.
DivByZero ==
  {[traps |-> TRUE, q |-> 0]} \cup {[traps |-> FALSE, q |-> q] : q \in {0, 255}}

\* The first loop of wipeRenumLines: the uint8 count of the lines from at on.
\* (A record of length zero would keep the C loop at the same line for ever;
\* the compiler writes none, and the walk stops there.)
RECURSIVE RenumCount(_, _, _, _, _)
RenumCount(prog, progByte, at, count, g) ==
  IF at < progByte /\ Rd(prog, at + TKNZD_LEN_OFFS, g) > 0
    THEN RenumCount(prog, progByte, at + Rd(prog, at + TKNZD_LEN_OFFS, g),
                    (count + 1) % 256, g)
    ELSE count

\* The second loop: the line at at takes newLineNum, the next one
\* (uint8) (newLineNum + count), and so on.
RECURSIVE RenumWrite(_, _, _, _, _, _)
RenumWrite(prog, progByte, at, newLineNum, count, g) ==
  IF at < progByte /\ Rd(prog, at + TKNZD_LEN_OFFS, g) > 0
    THEN RenumWrite([k \in ProgIdx |->
                       IF k = at + TKNZD_LINE_OFFS THEN newLineNum ELSE prog[k]],
                    progByte, at + Rd(prog, at + TKNZD_LEN_OFFS, g),
                    (newLineNum + count) % 256, count, g)
    ELSE prog

\* count = (MAX_LINE_NUM - (LOWEST_LINE_NUM << 1)) / (count - 1), in int
\* arithmetic, stored in a uint8.
RenumStep(num, den) == CDiv(num, den) % 256

\* [done, prog]: done is whether the function returns; z is what the
\* division does when count - 1 is zero.
wipeRenumLines(prog, progByte, g, z) ==
  With([n \in {RenumCount(prog, progByte, 0, 0, g)} |->
      IF n - 1 = 0 /\ z.traps THEN [done |-> FALSE, prog |-> prog]
      ELSE
  With([step \in {IF n - 1 = 0 THEN z.q
                  ELSE RenumStep(MAX_LINE_NUM - 2 * LOWEST_LINE_NUM, n - 1)} |->
      [done |-> TRUE,
       prog |-> RenumWrite(prog, progByte, 0, LOWEST_LINE_NUM, step, g)]])])

\* The insertion loop of wipeSaveLine from byte i of the edit line.
RECURSIVE InsertBytes(_, _, _, _, _, _)
InsertBytes(prog, ls, insertPos, insertLineLen, i, g) ==
  IF i >= insertLineLen THEN prog
  ELSE InsertBytes(
         [k \in ProgIdx |->
            IF k = insertPos + i THEN Rd(prog, ls + i, g)
            ELSE IF k > insertPos + i /\ k <= ls + i THEN prog[k - 1]
            ELSE prog[k]],
         ls, insertPos, insertLineLen, i + 1, g)

\* [ok, prog, lineStart, progByte]: the edit line at ls filed at its place.
wipeSaveLine(prog, ls, progByte, g) ==
  With([insertLineNum \in {prog[ls + TKNZD_LINE_OFFS]} |->
  With([insertLineLen \in {prog[ls + TKNZD_LEN_OFFS]} |->
  With([seek \in {wipeSeekLineStart(prog, progByte, insertLineNum, g)} |->
  With([del \in {IF seek.lineExists
                           THEN wipeDeleteLine(prog, ls, progByte, seek.pos,
                                               prog[seek.pos + TKNZD_LEN_OFFS], g)
                           ELSE [prog |-> prog, lineStart |-> ls, progByte |-> progByte]} |->
      IF seek.pos = ls
        THEN [ok |-> TRUE, prog |-> prog, lineStart |-> ls + insertLineLen,
              progByte |-> progByte]
      ELSE IF seek.pos < MAX_PROG_SIZE
        THEN [ok |-> TRUE,
              prog |-> InsertBytes(del.prog, del.lineStart, seek.pos,
                                   insertLineLen, 0, g),
              lineStart |-> del.lineStart + insertLineLen,
              progByte |-> del.progByte]
      ELSE [ok |-> FALSE, prog |-> prog, lineStart |-> ls, progByte |-> progByte]])])])])

\* [ok, lower, upper, tok, pos].
wipeParseLineRange(tok0, pos0, len) ==
  With([lo \in {wipeParseInt(tok0, pos0, len, TRUE)} |->
  With([p1 \in {lo.pos + strspn(lo.tok, lo.pos, {SP, CR})} |->
  With([dash \in {Ch(lo.tok, p1) = cMinus} |->
  With([up \in {wipeParseInt(lo.tok, p1 + 2, len, TRUE)} |->
  With([tmpUpper0 \in {IF ~dash THEN 0 ELSE IF up.ok THEN up.val ELSE MAX_LINE_NUM} |->
  With([tmpLower \in {IF lo.val = 0 THEN 1 ELSE lo.val} |->
  With([tmpUpper \in {IF tmpUpper0 # 0 THEN tmpUpper0
                                   ELSE IF lo.val = 0 THEN MAX_LINE_NUM ELSE lo.val} |->
  With([bad \in {tmpLower < 1 \/ tmpUpper < 1 \/ tmpUpper > MAX_LINE_NUM
                         \/ tmpUpper < tmpLower} |->
  With([tokE \in {IF dash THEN up.tok ELSE lo.tok} |->
  With([posE \in {IF dash THEN up.pos ELSE p1} |->
      IF bad THEN [ok |-> FALSE, lower |-> 0, upper |-> 0, tok |-> tokE, pos |-> posE]
      ELSE [ok |-> lo.ok \/ (dash /\ up.ok), lower |-> tmpLower, upper |-> tmpUpper,
            tok |-> tokE, pos |-> posE]])])])])])])])])])])


(***************************************************************************)
(* The execution engine.                                                   *)
(***************************************************************************)
\* What the engine reads at an address: the array, then its neighbours.
Mem(prog, g) == [i \in 0..(MAX_PROG_SIZE + MAX_SERIAL_BUF_LEN) |-> Rd(prog, i, g)]

\* [ok, progPos, tbl].  A name already in the symbol table is taken as
\* found, whatever its type; else the label lines from the current line
\* to the end are searched.
RECURSIVE LabelScan(_, _, _, _, _)
LabelScan(m, progByte, tbl, label, currLine) ==
  IF ~(currLine < progByte) THEN [ok |-> FALSE, progPos |-> 0, tbl |-> tbl]
  ELSE IF /\ m[currLine + TKNZD_STMT_OFFS] = WIPE_LABEL
          /\ Sub(m, currLine + TKNZD_STMT_OFFS + 1,
                 strlen(m, currLine + TKNZD_STMT_OFFS + 1)) = label
    THEN With([ins \in {wipeSymbolInsert(tbl, label, WIPE_ID_LABEL)} |->
           IF ins.ok
             THEN [ok |-> TRUE, progPos |-> currLine,
                   tbl |-> [ins.tbl EXCEPT ![ins.idx].symValue = currLine]]
             ELSE [ok |-> FALSE, progPos |-> 0, tbl |-> tbl]])
  ELSE With([n \in {m[currLine + TKNZD_LEN_OFFS]} |->
         IF n = 0 THEN [ok |-> FALSE, progPos |-> 0, tbl |-> tbl]
         ELSE LabelScan(m, progByte, tbl, label, currLine + n)])

wipeLabelLocate(m, progByte, lineStart, tbl, label) ==
  With([look \in {wipeSymbolLookup(tbl, label)} |->
      IF look.ok
        THEN [ok |-> TRUE, progPos |-> tbl[look.idx].symValue % 65536, tbl |-> tbl]
        ELSE LabelScan(m, progByte, tbl, label, lineStart)])

\* The command-sink call a function id makes with its parameter bytes.
SinkCall(funcId, v) ==
  CASE funcId = WASPCMD_BKGRD -> [op |-> "background", args |-> SubSeq(v, 1, 4)]
    [] funcId = WASPCMD_GROUP -> [op |-> "setGroup", args |-> SubSeq(v, 1, 4)]
    [] funcId = WASPCMD_LINE  ->
         [op |-> "line", args |-> <<v[1], v[5], v[6], v[2], v[3], v[4]>>]
    [] funcId = WASPCMD_RESET -> [op |-> "waspReset", args |-> SubSeq(v, 1, 1)]
    [] funcId = WASPCMD_STATE -> [op |-> "setState", args |-> SubSeq(v, 1, 2)]
    [] funcId = WASPCMD_SHIFT -> [op |-> "shift", args |-> SubSeq(v, 1, 2)]
    [] funcId = WASPCMD_SWAP  -> [op |-> "swap", args |-> SubSeq(v, 1, 7)]
    [] funcId = WASPCMD_RAINBOW   -> [op |-> "rainbow", args |-> SubSeq(v, 1, 2)]
    [] funcId = WASPCMD_RAINCYCLE -> [op |-> "rainbowCycle", args |-> SubSeq(v, 1, 1)]
    [] funcId = WASPCMD_SPEED   -> [op |-> "fxSpeed", args |-> SubSeq(v, 1, 2)]
    [] funcId = WASPCMD_TWINKLE -> [op |-> "twinkle", args |-> SubSeq(v, 1, 5)]
    [] funcId = WIPE_FN_PAUSE   -> [op |-> "pause", args |-> SubSeq(v, 1, 3)]
    [] OTHER -> [op |-> "none", args |-> << >>]

\* The parameter loop of a function statement from index p with i
\* parameters left: [ok, pos, vals, wide, err]; vals are the bytes
\* parmValue[], wide the values before the (uint8) cast, pos is
\* m_wipeRunByte when the loop is left.
RECURSIVE EvalParms(_, _, _, _, _, _, _, _)
EvalParms(m, p, i, tbl, g, vals, wide, err) ==
  IF i = 0
    THEN [ok |-> TRUE, pos |-> p, vals |-> vals, wide |-> wide, err |-> err]
  ELSE
  With([e \in {wipeParseExpression(m, p, WIPE_ID_INT, TRUE, tbl, g)} |->
      IF ~e.ok
        THEN [ok |-> FALSE, pos |-> p, vals |-> vals, wide |-> wide, err |-> TRUE]
      ELSE EvalParms(m, p + e.exprOffs, i - 1, tbl, g,
                     Append(vals, LowByte(e.value)), Append(wide, e.value),
                     err \/ e.err \/ e.value < 0 - 128 \/ e.value > 255)])

\* parmValue[] holds WIPE_MAX_PARMS bytes; those not assigned are whatever
\* the stack held.
PadParms(vals, g) ==
  [k \in 1..WIPE_MAX_PARMS |-> IF k <= Len(vals) THEN vals[k] ELSE g]

\* The console poll at the head of wipeExecuteStatement: a character is
\* waiting (inChar # NUL) and it is the cancel character.
CancelIgnored(inChar) == FALSE

CancelRequested(inChar) == inChar # NUL /\ inChar = cCancel

\* The check of m_breakProg at the head of wipeExecuteStatement: a pause
\* was cut short by the cancel character.
BreakForgotten(breakProg) == FALSE

BreakPending(breakProg) == breakProg

\* Where a false if sends the cursor: past the line that follows at nxt,
\* or to MAX_PROG_SIZE when no line follows.
SkipNothing(m, progByte, nxt) == nxt

SkipNext(m, progByte, nxt) ==
  IF nxt < progByte THEN nxt + m[nxt + TKNZD_LEN_OFFS] ELSE MAX_PROG_SIZE

\* Where a statement that neither jumps nor fails leaves the cursor:
\* m_wipeRunByte = lineStart + m_program[lineStart + TKNZD_LEN_OFFS].
SameLine(m, lineStart) == lineStart

NextLine(m, lineStart) == lineStart + m[lineStart + TKNZD_LEN_OFFS]

\* One call of wipeExecuteStatement(lineStart) on a program buffer of size
\* bytes (MAX_PROG_SIZE) whose bytes and neighbours are mem.  inChar is the character
\* waiting on the serial line (NUL: none), brk whether the cancel character
\* arrives during a pause, g what uninitialised memory holds.
\* [rc, runByte, lineStart, tbl, calls, err, how, breakProg, printed]: rc
\* is the value returned, runByte and lineStart the globals afterwards,
\* calls the command-sink calls made, err whether an error was reported,
\* how the path taken, printed the characters a print statement wrote to
\* the console before any error text.
wipeExecuteStatementIn(size, mem, progByte, runByte0, ls0, tbl, lineStart, breakProg, inChar, brk, g) ==
  LET res(rc, rbyte, t, calls, err, how, bp) ==
        [rc |-> rc, runByte |-> rbyte, lineStart |-> lineStart, tbl |-> t,
         calls |-> calls, err |-> err, how |-> how, breakProg |-> bp,
         printed |-> << >>]
      fail(rbyte, how) == res(size, rbyte, tbl, << >>, TRUE, how, breakProg)
  IN
  IF BreakPending(breakProg)
    THEN [lineStart |-> ls0]
         @@ res(size, runByte0, tbl, << >>, FALSE, "break", breakProg)
  ELSE IF CancelRequested(inChar)
    THEN [lineStart |-> ls0]
         @@ res(size, size, tbl, << >>, FALSE, "cancel", breakProg)
  ELSE
  With([m \in {mem} |->
  With([stmt \in {m[lineStart + TKNZD_STMT_OFFS]} |->
  With([rb \in {lineStart + TKNZD_STMT_OFFS + 1} |->
  With([nxt \in {NextLine(m, lineStart)} |->
  \* the identifier of goto, label, let and var, and the byte after it
  With([idn \in {strlen(m, rb)} |->
  With([id \in {Sub(m, rb, idn)} |->
  With([aft \in {rb + idn + 1} |->
      CASE stmt = WIPE_FUNC ->
             With([funcId \in {m[rb]} |->
             With([ps \in {EvalParms(m, rb + 3, m[rb + 1], tbl, g, << >>, << >>,
                                     FALSE)} |->
             With([call \in {SinkCall(funcId, PadParms(ps.vals, g))} |->
                 IF ~ps.ok \/ call.op = "none" THEN fail(ps.pos, "error")
                 ELSE res(nxt, nxt, tbl, <<call>>, ps.err, "next",
                          breakProg \/ (funcId = WIPE_FN_PAUSE /\ brk))])])])
        [] stmt = WIPE_GOTO ->
             With([loc \in {wipeLabelLocate(m, progByte, lineStart, tbl, id)} |->
                 IF loc.ok THEN res(loc.progPos, loc.progPos, loc.tbl, << >>, FALSE,
                                    "jump", breakProg)
                 ELSE fail(aft, "error")])
        [] stmt = WIPE_IF ->
             With([cond \in {wipeParseExpression(m, rb, WIPE_ID_BOOL, FALSE, tbl, g)} |->
                 IF ~cond.ok THEN fail(rb, "error")
                 ELSE IF LowByte(cond.value) = 0
                   THEN With([skip \in {IF nxt < progByte THEN SkipNext(m, progByte, nxt)
                                      ELSE size} |->
                          res(skip, skip, tbl, << >>, cond.err,
                              IF nxt < progByte THEN "skip" ELSE "skipend",
                              breakProg)])
                 ELSE res(nxt, nxt, tbl, << >>, cond.err, "next", breakProg)])
        [] stmt = WIPE_LABEL ->
             With([lab \in {wipeSymbolInsert(tbl, id, WIPE_ID_LABEL)} |->
                 IF lab.ok
                   THEN res(nxt, nxt, [lab.tbl EXCEPT ![lab.idx].symValue = lineStart],
                            << >>, FALSE, "next", breakProg)
                 ELSE IF lab.idx = MAX_NUM_SYMBOLS THEN fail(aft, "error")
                 ELSE res(nxt, nxt, tbl, << >>, FALSE, "next", breakProg)])
        [] stmt = WIPE_LET ->
             With([look \in {wipeSymbolLookup(tbl, id)} |->
                 IF ~look.ok THEN fail(aft + 2, "error")
                 ELSE
             With([asg \in {wipeParseExpression(m, aft, tbl[look.idx].typeId, FALSE,
                                                tbl, g)} |->
                 IF ~asg.ok THEN fail(aft + 2, "error")
                 ELSE res(nxt, nxt, [tbl EXCEPT ![look.idx].symValue = asg.value],
                          << >>, asg.err, "next", breakProg)])])
        [] stmt = WIPE_PRINT ->
             IF m[rb] = WIPE_PRT_STR
               THEN [res(nxt, nxt, tbl, << >>, FALSE, "next", breakProg)
                       EXCEPT !.printed = [i \in 1..strlen(m, rb + 1) |-> m[rb + i]]]
             ELSE
             With([pidn \in {strlen(m, rb + 1)} |->
             With([plk \in {wipeSymbolLookup(tbl, Sub(m, rb + 1, pidn))} |->
                 IF ~plk.ok THEN fail(rb + 1 + pidn + 1, "error")
                 ELSE
             With([exprVal \in {tbl[plk.idx].symValue} |->
                 IF tbl[plk.idx].typeId = WIPE_ID_INT
                   THEN [res(nxt, nxt, tbl, << >>, FALSE, "next", breakProg)
                           EXCEPT !.printed = SerialPrint(exprVal)]
                 ELSE IF tbl[plk.idx].typeId = WIPE_ID_FLOAT
                   THEN [res(nxt, nxt, tbl, << >>, FALSE, "next", breakProg)
                           EXCEPT !.printed = SerialPrintFloat(exprVal)]
                 ELSE IF tbl[plk.idx].typeId = WIPE_ID_BOOL
                   THEN [fail(rb + 1 + pidn + 1, "error")
                           EXCEPT !.printed = SerialPrint(LowByte(exprVal))]
                 ELSE fail(rb + 1 + pidn + 1, "error")])])])
        [] stmt = WIPE_VAR ->
             With([decl \in {wipeSymbolInsert(tbl, id, m[aft])} |->
                 IF decl.ok THEN res(nxt, nxt, decl.tbl, << >>, FALSE, "next", breakProg)
                 ELSE fail(aft, "error")])
        [] OTHER -> res(nxt, nxt, tbl, << >>, TRUE, "next", breakProg)])])])])])])])

\* The engine on the program buffer of the sketch.
wipeExecuteStatement(prog, progByte, runByte0, ls0, tbl, lineStart, breakProg, inChar, brk, g) ==
  wipeExecuteStatementIn(MAX_PROG_SIZE, Mem(prog, g), progByte, runByte0, ls0, tbl,
                         lineStart, breakProg, inChar, brk, g)


(***************************************************************************)
(* The program directory in EEPROM.  The EEPROM has                        *)
(* EEPROM_RESET_COUNT_ADDR + 1 cells; its address register ignores the     *)
(* bits above that, so an address past the last cell wraps around.         *)
(***************************************************************************)
EEPROM_SIZE == EEPROM_RESET_COUNT_ADDR + 1

EeIdx == 0..(EEPROM_SIZE - 1)

EeRead(ee, a) == ee[a % EEPROM_SIZE]

EeWrite(ee, a, v) == [ee EXCEPT ![a % EEPROM_SIZE] = v]

\* The big-endian 16-bit file size of the entry at a.
EeSize(ee, a) == EeRead(ee, a) * 256 + EeRead(ee, a + 1)

DirEnd == EEPROM_PROG_DIR_START + EEPROM_PROG_LEN

\* The walk of wipeDirSpaceCheck: [saveAddr, dirSpace].  The counters are
\* uint16.
RECURSIVE DirWalk(_, _, _)
DirWalk(ee, saveAddr, dirSpace) ==
  With([currFileSize \in {EeSize(ee, saveAddr)} |->
      IF currFileSize # 0 /\ saveAddr < DirEnd
        THEN DirWalk(ee, (saveAddr + currFileSize + DIR_PROG_OFFS) % 65536,
                     (dirSpace - (currFileSize + DIR_PROG_OFFS)) % 65536)
        ELSE [saveAddr |-> saveAddr, dirSpace |-> dirSpace]])

wipeDirSpaceCheck(ee) == DirWalk(ee, EEPROM_PROG_DIR_START, EEPROM_PROG_LEN)

\* The name comparison of wipeDirFileFind from character i on.
RECURSIVE NameMatch(_, _, _, _)
NameMatch(ee, entry, name, i) ==
  IF i > MAX_PROGNAME_LEN THEN FALSE
  ELSE IF Ch(name, i) # EeRead(ee, entry + DIR_NAME_OFFS + i) THEN FALSE
  ELSE IF Ch(name, i) = NUL THEN TRUE
  ELSE NameMatch(ee, entry, name, i + 1)

\* [entry, fileSize]; entry = 0: not found.
RECURSIVE FindFrom(_, _, _)
FindFrom(ee, name, currDirEntry) ==
  With([currFileSize \in {EeSize(ee, currDirEntry)} |->
      IF ~(currFileSize # 0 /\ currDirEntry < DirEnd)
        THEN [entry |-> 0, fileSize |-> 0]
      ELSE IF NameMatch(ee, currDirEntry, name, 0)
        THEN [entry |-> currDirEntry, fileSize |-> currFileSize]
      ELSE FindFrom(ee, name, (currDirEntry + currFileSize + DIR_PROG_OFFS) % 65536)])

wipeDirFileFind(ee, name) == FindFrom(ee, name, EEPROM_PROG_DIR_START)

\* n cells written from address at, cell k taking val[k].
EeWriteRun(ee, at, n, val) ==
  [a \in EeIdx |->
     IF \E k \in 0..(n - 1) : (at + k) % EEPROM_SIZE = a
       THEN val[CHOOSE k \in 0..(n - 1) :
                  /\ (at + k) % EEPROM_SIZE = a
                  /\ \A j \in 0..(n - 1) : (at + j) % EEPROM_SIZE = a => j <= k]
       ELSE ee[a]]

\* [ee, saveAddr, dirSpace].  name13 are the MAX_PROGNAME_LEN + 1
\* characters at progName.
wipeDirFileSave(ee, saveAddr, dirSpace, prog, progByte, name13, g) ==
  LET hdr(k) == IF k = 0 THEN (progByte \div 256) % 256
                ELSE IF k = 1 THEN progByte % 256
                ELSE IF k < DIR_PROG_OFFS THEN Ch(name13, k - DIR_NAME_OFFS)
                ELSE Rd(prog, k - DIR_PROG_OFFS, g)
      e1    == EeWriteRun(ee, saveAddr, DIR_PROG_OFFS + progByte,
                          [k \in 0..(DIR_PROG_OFFS + progByte - 1) |-> hdr(k)])
      addr2 == (saveAddr + progByte + DIR_PROG_OFFS) % 65536
  IN  [ ee       |-> EeWrite(EeWrite(e1, addr2, 0), addr2 + 1, 0),
        saveAddr |-> addr2,
        dirSpace |-> (dirSpace - (progByte + DIR_PROG_OFFS)) % 65536 ]

\* The copy loop of wipeDirFileErase, one cell at a time.
RECURSIVE EraseMove(_, _, _, _)
EraseMove(ee, dst, src, n) ==
  IF n = 0 THEN ee
  ELSE EraseMove(EeWrite(ee, dst, EeRead(ee, src)), dst + 1, src + 1, n - 1)

\* [found, ee, saveAddr, dirSpace].
wipeDirFileErase(ee, saveAddr, dirSpace, name) ==
  With([f \in {wipeDirFileFind(ee, name)} |->
      IF f.entry = 0
        THEN [found |-> FALSE, ee |-> ee, saveAddr |-> saveAddr, dirSpace |-> dirSpace]
        ELSE
  With([numBytesToMove \in {((EEPROM_PROG_LEN - dirSpace)
                               - (f.fileSize + DIR_PROG_OFFS)) % 65536} |->
  With([e1 \in {EraseMove(ee, f.entry, f.entry + f.fileSize + DIR_PROG_OFFS,
                          numBytesToMove)} |->
  With([addr2 \in {(saveAddr - (f.fileSize + DIR_PROG_OFFS)) % 65536} |->
             [found |-> TRUE,
              ee |-> EeWrite(EeWrite(e1, addr2, 0), addr2 + 1, 0),
              saveAddr |-> addr2,
              dirSpace |-> (dirSpace + f.fileSize + DIR_PROG_OFFS) % 65536]])])])])

\* [ok, prog, progByte]; on success m_wipeLineStart = m_wipeProgByte =
\* progByte.
wipeDirFileLoad(ee, prog, progByte, name) ==
  With([f \in {wipeDirFileFind(ee, name)} |->
      IF f.entry = 0 THEN [ok |-> FALSE, prog |-> prog, progByte |-> progByte]
      ELSE [ok |-> TRUE,
            prog |-> [i \in ProgIdx |->
                        IF i < f.fileSize
                          THEN EeRead(ee, f.entry + DIR_PROG_OFFS + i)
                          ELSE prog[i]],
            progByte |-> f.fileSize]])


(***************************************************************************)
(* The interpreter as a state machine.                                     *)
(***************************************************************************)
VARIABLES
  m_program,        \* the program buffer, one byte per index
  m_wipeProgByte,   \* its occupied length
  m_wipeLineStart,  \* start of the line being edited or executed
  m_wipeRunByte,    \* the run cursor
  m_symTbl,         \* the symbol table
  m_breakProg,      \* the cancel character was seen during a pause
  eeprom,           \* the EEPROM cells
  m_wipeDirSpace,   \* free bytes of the program directory
  m_wipeSaveAddr,   \* address of the directory's end mark
  engine,           \* "Idle", "Executing", "Done", "Aborted" or "Halted"
  sink,             \* the command-sink calls made so far
  last,             \* what the last step was and how it ended
  nCmds             \* steps taken so far

vars == << m_program, m_wipeProgByte, m_wipeLineStart, m_wipeRunByte, m_symTbl,
           m_breakProg, eeprom, m_wipeDirSpace, m_wipeSaveAddr, engine, sink,
           last, nCmds >>

\* Console lines entered, and execution steps taken, in one behaviour.
MaxCmds == 4

\* Console lines and statements executed in one behaviour with a run.
MaxSteps == 9

None == [cmd |-> "none"]

\* The EEPROM after setup() has found a new firmware version: erased
\* cells, an empty directory.
EepromInit ==
  [a \in EeIdx |->
     IF a \in {EEPROM_PROG_DIR_START, EEPROM_PROG_DIR_START + 1} THEN 0
     ELSE IF a = EEPROM_RESET_COUNT_ADDR THEN 0 ELSE 255]

\* The state cmdHdlrWipe leaves when WIPE mode is entered after a reset.
InitWith(prog, progByte, ee) ==
  /\ m_program = prog
  /\ m_wipeProgByte = progByte
  /\ m_wipeLineStart = progByte
  /\ m_wipeRunByte = 0
  /\ m_symTbl = wipeSymbolsClear
  /\ m_breakProg = FALSE
  /\ eeprom = ee
  /\ m_wipeDirSpace = wipeDirSpaceCheck(ee).dirSpace
  /\ m_wipeSaveAddr = wipeDirSpaceCheck(ee).saveAddr
  /\ engine = "Idle"
  /\ sink = << >>
  /\ last = None
  /\ nCmds = 0

Init == InitWith([i \in ProgIdx |-> 0], 0, EepromInit)

\* The stored lines, first to last: each the bytes of its record, a byte
\* that lies past the array shown as -1.
RECURSIVE LinesFrom(_, _, _)
LinesFrom(prog, progByte, at) ==
  With([n \in {Rd(prog, at + TKNZD_LEN_OFFS, 0)} |->
      IF at >= progByte \/ at >= MAX_PROG_SIZE \/ n = 0 THEN << >>
      ELSE << [k \in 1..n |-> Rd(prog, at + k - 1, 0 - 1)] >>
           \o LinesFrom(prog, progByte, at + n)])

StoredLines == LinesFrom(m_program, m_wipeProgByte, 0)

\* The line number a stored record carries.
LineNumOf(rec) == rec[1 + TKNZD_LINE_OFFS]

HasLine(lines, n) == \E i \in 1..Len(lines) : LineNumOf(lines[i]) = n

\* Whether the input stage takes the line: it drops a line that reaches
\* the console buffer's last cell or, added to the occupied length, the
\* end of the program buffer.
LineAccepted(l, progByte) ==
  \A k \in 0..(BufLen(l) - 1) :
     /\ k # MAX_SERIAL_BUF_LEN - 1
     /\ progByte + k <= MAX_PROG_SIZE

\* The command token of a line, as processWipeCommand first scans it.
LineCommand(l) == wipeScanCommand(l, strspn(l, 0, {SP}), BufLen(l))

\* Lines typed at the prompt: numbered lines, good and bad, and immediate
\* statements.
\*   5 label A
\*   10 let x = 1
\*   20 Rain(1,2)
\*   10 goto A
\*   20 if x = 1
\*   5 Rain(1,2)
\*   5 let y = 1 +
\*   10 Rain(1)
\*   20 foo
\*   300 label A
\*   let y = 1 +
\*   Reset(7)
\*   var x : int
EditLines ==
  { Str(<<"5", " ", "l", "a", "b", "e", "l", " ", "A">>),
    Str(<<"1", "0", " ", "l", "e", "t", " ", "x", " ", "=", " ", "1">>),
    Str(<<"2", "0", " ", "R", "a", "i", "n", "(", "1", ",", "2", ")">>),
    Str(<<"1", "0", " ", "g", "o", "t", "o", " ", "A">>),
    Str(<<"2", "0", " ", "i", "f", " ", "x", " ", "=", " ", "1">>),
    Str(<<"5", " ", "R", "a", "i", "n", "(", "1", ",", "2", ")">>),
    Str(<<"5", " ", "l", "e", "t", " ", "y", " ", "=", " ", "1", " ", "+">>),
    Str(<<"1", "0", " ", "R", "a", "i", "n", "(", "1", ")">>),
    Str(<<"2", "0", " ", "f", "o", "o">>),
    Str(<<"3", "0", "0", " ", "l", "a", "b", "e", "l", " ", "A">>),
    Str(<<"l", "e", "t", " ", "y", " ", "=", " ", "1", " ", "+">>),
    Str(<<"R", "e", "s", "e", "t", "(", "7", ")">>),
    Str(<<"v", "a", "r", " ", "x", " ", ":", " ", "i", "n", "t">>) }

\* del commands.
\*   del 10
\*   del 5 - 10
\*   del
\*   del 20 - 5
DelLines ==
  { Str(<<"d", "e", "l", " ", "1", "0">>),
    Str(<<"d", "e", "l", " ", "5", " ", "-", " ", "1", "0">>),
    Str(<<"d", "e", "l">>),
    Str(<<"d", "e", "l", " ", "2", "0", " ", "-", " ", "5">>) }


\* del commands in each form of the line range, written with and without
\* blanks around the dash.
\*   del 10
\*   del 10 - 20
\*   del 10 -
\*   del - 20
\*   del 10-20
\*   del 10-
\*   del -20
\*   del 5 - 5
\*   del 1 - 255
\*   del 20 - 10
RangeLines ==
  { Str(<<"d", "e", "l", " ", "1", "0">>),
    Str(<<"d", "e", "l", " ", "1", "0", " ", "-", " ", "2", "0">>),
    Str(<<"d", "e", "l", " ", "1", "0", " ", "-">>),
    Str(<<"d", "e", "l", " ", "-", " ", "2", "0">>),
    Str(<<"d", "e", "l", " ", "1", "0", "-", "2", "0">>),
    Str(<<"d", "e", "l", " ", "1", "0", "-">>),
    Str(<<"d", "e", "l", " ", "-", "2", "0">>),
    Str(<<"d", "e", "l", " ", "5", " ", "-", " ", "5">>),
    Str(<<"d", "e", "l", " ", "1", " ", "-", " ", "2", "5", "5">>),
    Str(<<"d", "e", "l", " ", "2", "0", " ", "-", " ", "1", "0">>) }

\* save, load and erase commands.
\*   save a
\*   save b
\*   load a
\*   load b
\*   erase a
\*   erase b
DirLines ==
  { Str(<<"s", "a", "v", "e", " ", "a">>),
    Str(<<"s", "a", "v", "e", " ", "b">>),
    Str(<<"l", "o", "a", "d", " ", "a">>),
    Str(<<"l", "o", "a", "d", " ", "b">>),
    Str(<<"e", "r", "a", "s", "e", " ", "a">>),
    Str(<<"e", "r", "a", "s", "e", " ", "b">>) }

\* renum
RenumLine == Str(<<"r", "e", "n", "u", "m">>)

\* Stored programs that are run, each the lines entered at the prompt.
\*   5 Bkgrd(255,0,0,0) / 10 Reset(7)
\*   5 if 0 / 10 goto A / 20 Reset(1) / 30 if 0
\*   5 if 1 / 10 Reset(1) / 20 Reset(2)
\*   5 label A / 10 Reset(1) / 20 goto A
\*   5 goto A / 10 Reset(1) / 20 label A
\*   5 goto B
\*   5 var L : int / 10 goto L
\*   5 Reset(300) / 10 Reset(1)
\*   5 Line(1,2,3,4,5,6)
\*   5 Reset(y) / 10 Reset(1)
\*   5 Pause(0,0,1) / 10 Reset(1)
\*   5 Line(1,2,3,4,5,6) / 10 Line(1,2,3,4,5,6)
\*   (no line)
RunPrograms ==
  { << Str(<<"5", " ", "B", "k", "g", "r", "d", "(", "2", "5", "5", ",", "0", ",", "0", ",", "0", ")">>),
       Str(<<"1", "0", " ", "R", "e", "s", "e", "t", "(", "7", ")">>) >>,
    << Str(<<"5", " ", "i", "f", " ", "0">>),
       Str(<<"1", "0", " ", "g", "o", "t", "o", " ", "A">>),
       Str(<<"2", "0", " ", "R", "e", "s", "e", "t", "(", "1", ")">>),
       Str(<<"3", "0", " ", "i", "f", " ", "0">>) >>,
    << Str(<<"5", " ", "i", "f", " ", "1">>),
       Str(<<"1", "0", " ", "R", "e", "s", "e", "t", "(", "1", ")">>),
       Str(<<"2", "0", " ", "R", "e", "s", "e", "t", "(", "2", ")">>) >>,
    << Str(<<"5", " ", "l", "a", "b", "e", "l", " ", "A">>),
       Str(<<"1", "0", " ", "R", "e", "s", "e", "t", "(", "1", ")">>),
       Str(<<"2", "0", " ", "g", "o", "t", "o", " ", "A">>) >>,
    << Str(<<"5", " ", "g", "o", "t", "o", " ", "A">>),
       Str(<<"1", "0", " ", "R", "e", "s", "e", "t", "(", "1", ")">>),
       Str(<<"2", "0", " ", "l", "a", "b", "e", "l", " ", "A">>) >>,
    << Str(<<"5", " ", "g", "o", "t", "o", " ", "B">>) >>,
    << Str(<<"5", " ", "v", "a", "r", " ", "L", " ", ":", " ", "i", "n", "t">>),
       Str(<<"1", "0", " ", "g", "o", "t", "o", " ", "L">>) >>,
    << Str(<<"5", " ", "R", "e", "s", "e", "t", "(", "3", "0", "0", ")">>),
       Str(<<"1", "0", " ", "R", "e", "s", "e", "t", "(", "1", ")">>) >>,
    << Str(<<"5", " ", "L", "i", "n", "e", "(", "1", ",", "2", ",", "3", ",", "4", ",", "5", ",", "6", ")">>) >>,
    << Str(<<"5", " ", "R", "e", "s", "e", "t", "(", "y", ")">>),
       Str(<<"1", "0", " ", "R", "e", "s", "e", "t", "(", "1", ")">>) >>,
    << Str(<<"5", " ", "P", "a", "u", "s", "e", "(", "0", ",", "0", ",", "1", ")">>),
       Str(<<"1", "0", " ", "R", "e", "s", "e", "t", "(", "1", ")">>) >>,
    << Str(<<"5", " ", "L", "i", "n", "e", "(", "1", ",", "2", ",", "3", ",", "4", ",", "5", ",", "6", ")">>),
       Str(<<"1", "0", " ", "L", "i", "n", "e", "(", "1", ",", "2", ",", "3", ",", "4", ",", "5", ",", "6", ")">>) >>,
    << >> }

\* The run command.
RunLine == Str(<<"r", "u", "n">>)

\* The lines of the stored programs.
RunLines == UNION { { q[i] : i \in 1..Len(q) } : q \in RunPrograms }

\* Stored programs that declare, assign and print variables.
\*   5 var x : int / 10 let x = 10 + 5 / 20 print x
\*   5 var x : int / 10 var x : bool
\*   5 var a : int / 10 var b : int / 20 var c : int / 30 var d : int
\*   5 let y = 1
\*   5 var b : bool / 10 let b = 0 / 20 let b = 1 / 30 let b = 2
\*   5 var x : int / 10 let x = 7 / 20 let x = y
\*   5 var b : bool / 10 var x : int / 20 let b = 1 / 30 let x = b
\*   5 var x : int / 10 let x = 2 < 3 / 20 print x
\*   5 label A / 10 var A : int
SymPrograms ==
  { << Str(<<"5", " ", "v", "a", "r", " ", "x", " ", ":", " ", "i", "n", "t">>),
       Str(<<"1", "0", " ", "l", "e", "t", " ", "x", " ", "=", " ", "1", "0", " ", "+", " ", "5">>),
       Str(<<"2", "0", " ", "p", "r", "i", "n", "t", " ", "x">>) >>,
    << Str(<<"5", " ", "v", "a", "r", " ", "x", " ", ":", " ", "i", "n", "t">>),
       Str(<<"1", "0", " ", "v", "a", "r", " ", "x", " ", ":", " ", "b", "o", "o", "l">>) >>,
    << Str(<<"5", " ", "v", "a", "r", " ", "a", " ", ":", " ", "i", "n", "t">>),
       Str(<<"1", "0", " ", "v", "a", "r", " ", "b", " ", ":", " ", "i", "n", "t">>),
       Str(<<"2", "0", " ", "v", "a", "r", " ", "c", " ", ":", " ", "i", "n", "t">>),
       Str(<<"3", "0", " ", "v", "a", "r", " ", "d", " ", ":", " ", "i", "n", "t">>) >>,
    << Str(<<"5", " ", "l", "e", "t", " ", "y", " ", "=", " ", "1">>) >>,
    << Str(<<"5", " ", "v", "a", "r", " ", "b", " ", ":", " ", "b", "o", "o", "l">>),
       Str(<<"1", "0", " ", "l", "e", "t", " ", "b", " ", "=", " ", "0">>),
       Str(<<"2", "0", " ", "l", "e", "t", " ", "b", " ", "=", " ", "1">>),
       Str(<<"3", "0", " ", "l", "e", "t", " ", "b", " ", "=", " ", "2">>) >>,
    << Str(<<"5", " ", "v", "a", "r", " ", "x", " ", ":", " ", "i", "n", "t">>),
       Str(<<"1", "0", " ", "l", "e", "t", " ", "x", " ", "=", " ", "7">>),
       Str(<<"2", "0", " ", "l", "e", "t", " ", "x", " ", "=", " ", "y">>) >>,
    << Str(<<"5", " ", "v", "a", "r", " ", "b", " ", ":", " ", "b", "o", "o", "l">>),
       Str(<<"1", "0", " ", "v", "a", "r", " ", "x", " ", ":", " ", "i", "n", "t">>),
       Str(<<"2", "0", " ", "l", "e", "t", " ", "b", " ", "=", " ", "1">>),
       Str(<<"3", "0", " ", "l", "e", "t", " ", "x", " ", "=", " ", "b">>) >>,
    << Str(<<"5", " ", "v", "a", "r", " ", "x", " ", ":", " ", "i", "n", "t">>),
       Str(<<"1", "0", " ", "l", "e", "t", " ", "x", " ", "=", " ", "2", " ", "<", " ", "3">>),
       Str(<<"2", "0", " ", "p", "r", "i", "n", "t", " ", "x">>) >>,
    << Str(<<"5", " ", "l", "a", "b", "e", "l", " ", "A">>),
       Str(<<"1", "0", " ", "v", "a", "r", " ", "A", " ", ":", " ", "i", "n", "t">>) >> }

\* The lines of those programs.
SymLines == UNION { { q[i] : i \in 1..Len(q) } : q \in SymPrograms }

\* Immediate statements entered between runs.
\*   var x : int
\*   let x = 1
ImmediateLines ==
  { Str(<<"v", "a", "r", " ", "x", " ", ":", " ", "i", "n", "t">>),
    Str(<<"l", "e", "t", " ", "x", " ", "=", " ", "1">>) }

\* Immediate let statements over the variables a and b.
\*   let r = a || b
\*   let r = a && b
\*   let r = !a
\*   let r = a / b
\*   let r = a % b
\*   let r = a + b
\*   let r = -a
ExprLines ==
  { Str(<<"l", "e", "t", " ", "r", " ", "=", " ", "a", " ", "|", "|", " ", "b">>),
    Str(<<"l", "e", "t", " ", "r", " ", "=", " ", "a", " ", "&", "&", " ", "b">>),
    Str(<<"l", "e", "t", " ", "r", " ", "=", " ", "!", "a">>),
    Str(<<"l", "e", "t", " ", "r", " ", "=", " ", "a", " ", "/", " ", "b">>),
    Str(<<"l", "e", "t", " ", "r", " ", "=", " ", "a", " ", "%", " ", "b">>),
    Str(<<"l", "e", "t", " ", "r", " ", "=", " ", "a", " ", "+", " ", "b">>),
    Str(<<"l", "e", "t", " ", "r", " ", "=", " ", "-", "a">>) }

\* Function-call statements, numbered and immediate, with one argument
\* fewer than the function takes, with as many, and with one more; each
\* with the function's name and the number of arguments written.
\*   5 Bkgrd(1,1,1)
\*   5 Bkgrd(1,1,1,1)
\*   5 Bkgrd(1,1,1,1,1)
\*   5 Group(1,1,1)
\*   5 Group(1,1,1,1)
\*   5 Group(1,1,1,1,1)
\*   5 Line(1,1,1,1,1)
\*   5 Line(1,1,1,1,1,1)
\*   5 Line(1,1,1,1,1,1,1)
\*   5 Reset()
\*   5 Reset(1)
\*   5 Reset(1,1)
\*   5 State(1)
\*   5 State(1,1)
\*   5 State(1,1,1)
\*   5 Shift(1)
\*   5 Shift(1,1)
\*   5 Shift(1,1,1)
\*   5 Swap(1,1,1,1,1,1)
\*   5 Swap(1,1,1,1,1,1,1)
\*   5 Swap(1,1,1,1,1,1,1,1)
\*   5 Rain(1)
\*   5 Rain(1,1)
\*   5 Rain(1,1,1)
\*   5 Cycle()
\*   5 Cycle(1)
\*   5 Cycle(1,1)
\*   5 Speed(1)
\*   5 Speed(1,1)
\*   5 Speed(1,1,1)
\*   5 Twinkle(1,1,1,1)
\*   5 Twinkle(1,1,1,1,1)
\*   5 Twinkle(1,1,1,1,1,1)
\*   5 Pause(1,1)
\*   5 Pause(1,1,1)
\*   5 Pause(1,1,1,1)
\*   Reset()
\*   Reset(1)
\*   Reset(1,1)
\*   Rain(1)
\*   Rain(1,1)
\*   Rain(1,1,1)
CallCases ==
  { [line  |-> Str(<<"5", " ", "B", "k", "g", "r", "d", "(", "1", ",", "1", ",", "1", ")">>),
     name  |-> "Bkgrd", given |-> 3],
    [line  |-> Str(<<"5", " ", "B", "k", "g", "r", "d", "(", "1", ",", "1", ",", "1", ",", "1", ")">>),
     name  |-> "Bkgrd", given |-> 4],
    [line  |-> Str(<<"5", " ", "B", "k", "g", "r", "d", "(", "1", ",", "1", ",", "1", ",", "1", ",", "1", ")">>),
     name  |-> "Bkgrd", given |-> 5],
    [line  |-> Str(<<"5", " ", "G", "r", "o", "u", "p", "(", "1", ",", "1", ",", "1", ")">>),
     name  |-> "Group", given |-> 3],
    [line  |-> Str(<<"5", " ", "G", "r", "o", "u", "p", "(", "1", ",", "1", ",", "1", ",", "1", ")">>),
     name  |-> "Group", given |-> 4],
    [line  |-> Str(<<"5", " ", "G", "r", "o", "u", "p", "(", "1", ",", "1", ",", "1", ",", "1", ",", "1", ")">>),
     name  |-> "Group", given |-> 5],
    [line  |-> Str(<<"5", " ", "L", "i", "n", "e", "(", "1", ",", "1", ",", "1", ",", "1", ",", "1", ")">>),
     name  |-> "Line", given |-> 5],
    [line  |-> Str(<<"5", " ", "L", "i", "n", "e", "(", "1", ",", "1", ",", "1", ",", "1", ",", "1", ",", "1", ")">>),
     name  |-> "Line", given |-> 6],
    [line  |-> Str(<<"5", " ", "L", "i", "n", "e", "(", "1", ",", "1", ",", "1", ",", "1", ",", "1", ",", "1", ",", "1", ")">>),
     name  |-> "Line", given |-> 7],
    [line  |-> Str(<<"5", " ", "R", "e", "s", "e", "t", "(", ")">>),
     name  |-> "Reset", given |-> 0],
    [line  |-> Str(<<"5", " ", "R", "e", "s", "e", "t", "(", "1", ")">>),
     name  |-> "Reset", given |-> 1],
    [line  |-> Str(<<"5", " ", "R", "e", "s", "e", "t", "(", "1", ",", "1", ")">>),
     name  |-> "Reset", given |-> 2],
    [line  |-> Str(<<"5", " ", "S", "t", "a", "t", "e", "(", "1", ")">>),
     name  |-> "State", given |-> 1],
    [line  |-> Str(<<"5", " ", "S", "t", "a", "t", "e", "(", "1", ",", "1", ")">>),
     name  |-> "State", given |-> 2],
    [line  |-> Str(<<"5", " ", "S", "t", "a", "t", "e", "(", "1", ",", "1", ",", "1", ")">>),
     name  |-> "State", given |-> 3],
    [line  |-> Str(<<"5", " ", "S", "h", "i", "f", "t", "(", "1", ")">>),
     name  |-> "Shift", given |-> 1],
    [line  |-> Str(<<"5", " ", "S", "h", "i", "f", "t", "(", "1", ",", "1", ")">>),
     name  |-> "Shift", given |-> 2],
    [line  |-> Str(<<"5", " ", "S", "h", "i", "f", "t", "(", "1", ",", "1", ",", "1", ")">>),
     name  |-> "Shift", given |-> 3],
    [line  |-> Str(<<"5", " ", "S", "w", "a", "p", "(", "1", ",", "1", ",", "1", ",", "1", ",", "1", ",", "1", ")">>),
     name  |-> "Swap", given |-> 6],
    [line  |-> Str(<<"5", " ", "S", "w", "a", "p", "(", "1", ",", "1", ",", "1", ",", "1", ",", "1", ",", "1", ",", "1", ")">>),
     name  |-> "Swap", given |-> 7],
    [line  |-> Str(<<"5", " ", "S", "w", "a", "p", "(", "1", ",", "1", ",", "1", ",", "1", ",", "1", ",", "1", ",", "1", ",", "1", ")">>),
     name  |-> "Swap", given |-> 8],
    [line  |-> Str(<<"5", " ", "R", "a", "i", "n", "(", "1", ")">>),
     name  |-> "Rain", given |-> 1],
    [line  |-> Str(<<"5", " ", "R", "a", "i", "n", "(", "1", ",", "1", ")">>),
     name  |-> "Rain", given |-> 2],
    [line  |-> Str(<<"5", " ", "R", "a", "i", "n", "(", "1", ",", "1", ",", "1", ")">>),
     name  |-> "Rain", given |-> 3],
    [line  |-> Str(<<"5", " ", "C", "y", "c", "l", "e", "(", ")">>),
     name  |-> "Cycle", given |-> 0],
    [line  |-> Str(<<"5", " ", "C", "y", "c", "l", "e", "(", "1", ")">>),
     name  |-> "Cycle", given |-> 1],
    [line  |-> Str(<<"5", " ", "C", "y", "c", "l", "e", "(", "1", ",", "1", ")">>),
     name  |-> "Cycle", given |-> 2],
    [line  |-> Str(<<"5", " ", "S", "p", "e", "e", "d", "(", "1", ")">>),
     name  |-> "Speed", given |-> 1],
    [line  |-> Str(<<"5", " ", "S", "p", "e", "e", "d", "(", "1", ",", "1", ")">>),
     name  |-> "Speed", given |-> 2],
    [line  |-> Str(<<"5", " ", "S", "p", "e", "e", "d", "(", "1", ",", "1", ",", "1", ")">>),
     name  |-> "Speed", given |-> 3],
    [line  |-> Str(<<"5", " ", "T", "w", "i", "n", "k", "l", "e", "(", "1", ",", "1", ",", "1", ",", "1", ")">>),
     name  |-> "Twinkle", given |-> 4],
    [line  |-> Str(<<"5", " ", "T", "w", "i", "n", "k", "l", "e", "(", "1", ",", "1", ",", "1", ",", "1", ",", "1", ")">>),
     name  |-> "Twinkle", given |-> 5],
    [line  |-> Str(<<"5", " ", "T", "w", "i", "n", "k", "l", "e", "(", "1", ",", "1", ",", "1", ",", "1", ",", "1", ",", "1", ")">>),
     name  |-> "Twinkle", given |-> 6],
    [line  |-> Str(<<"5", " ", "P", "a", "u", "s", "e", "(", "1", ",", "1", ")">>),
     name  |-> "Pause", given |-> 2],
    [line  |-> Str(<<"5", " ", "P", "a", "u", "s", "e", "(", "1", ",", "1", ",", "1", ")">>),
     name  |-> "Pause", given |-> 3],
    [line  |-> Str(<<"5", " ", "P", "a", "u", "s", "e", "(", "1", ",", "1", ",", "1", ",", "1", ")">>),
     name  |-> "Pause", given |-> 4],
    [line  |-> Str(<<"R", "e", "s", "e", "t", "(", ")">>),
     name  |-> "Reset", given |-> 0],
    [line  |-> Str(<<"R", "e", "s", "e", "t", "(", "1", ")">>),
     name  |-> "Reset", given |-> 1],
    [line  |-> Str(<<"R", "e", "s", "e", "t", "(", "1", ",", "1", ")">>),
     name  |-> "Reset", given |-> 2],
    [line  |-> Str(<<"R", "a", "i", "n", "(", "1", ")">>),
     name  |-> "Rain", given |-> 1],
    [line  |-> Str(<<"R", "a", "i", "n", "(", "1", ",", "1", ")">>),
     name  |-> "Rain", given |-> 2],
    [line  |-> Str(<<"R", "a", "i", "n", "(", "1", ",", "1", ",", "1", ")">>),
     name  |-> "Rain", given |-> 3] }

CallLines == { c.line : c \in CallCases }

\* Programs with label lines: executed again, found by a goto first, named
\* like a variable, and two of one name.
\*   5 label A / 10 Reset(1) / 20 goto A
\*   5 goto A / 10 label A
\*   5 var A : int / 10 label A
\*   5 label A / 10 label A
\*   5 label A / 10 label B
LabelPrograms ==
  { << Str(<<"5", " ", "l", "a", "b", "e", "l", " ", "A">>),
       Str(<<"1", "0", " ", "R", "e", "s", "e", "t", "(", "1", ")">>),
       Str(<<"2", "0", " ", "g", "o", "t", "o", " ", "A">>) >>,
    << Str(<<"5", " ", "g", "o", "t", "o", " ", "A">>),
       Str(<<"1", "0", " ", "l", "a", "b", "e", "l", " ", "A">>) >>,
    << Str(<<"5", " ", "v", "a", "r", " ", "A", " ", ":", " ", "i", "n", "t">>),
       Str(<<"1", "0", " ", "l", "a", "b", "e", "l", " ", "A">>) >>,
    << Str(<<"5", " ", "l", "a", "b", "e", "l", " ", "A">>),
       Str(<<"1", "0", " ", "l", "a", "b", "e", "l", " ", "A">>) >>,
    << Str(<<"5", " ", "l", "a", "b", "e", "l", " ", "A">>),
       Str(<<"1", "0", " ", "l", "a", "b", "e", "l", " ", "B">>) >> }

LabelProgramLines == UNION { { q[i] : i \in 1..Len(q) } : q \in LabelPrograms }

\* Programs whose goto names a label ahead, a label executed before, and a
\* label on an earlier line that was skipped.
\*   5 goto A / 10 Reset(1) / 20 label A
\*   5 label A / 10 if 0 / 20 goto A
\*   5 if 0 / 10 label A / 20 goto A
\*   5 goto B / 10 label A / 20 label B / 30 goto A
GotoPrograms ==
  { << Str(<<"5", " ", "g", "o", "t", "o", " ", "A">>),
       Str(<<"1", "0", " ", "R", "e", "s", "e", "t", "(", "1", ")">>),
       Str(<<"2", "0", " ", "l", "a", "b", "e", "l", " ", "A">>) >>,
    << Str(<<"5", " ", "l", "a", "b", "e", "l", " ", "A">>),
       Str(<<"1", "0", " ", "i", "f", " ", "0">>),
       Str(<<"2", "0", " ", "g", "o", "t", "o", " ", "A">>) >>,
    << Str(<<"5", " ", "i", "f", " ", "0">>),
       Str(<<"1", "0", " ", "l", "a", "b", "e", "l", " ", "A">>),
       Str(<<"2", "0", " ", "g", "o", "t", "o", " ", "A">>) >>,
    << Str(<<"5", " ", "g", "o", "t", "o", " ", "B">>),
       Str(<<"1", "0", " ", "l", "a", "b", "e", "l", " ", "A">>),
       Str(<<"2", "0", " ", "l", "a", "b", "e", "l", " ", "B">>),
       Str(<<"3", "0", " ", "g", "o", "t", "o", " ", "A">>) >> }

GotoLines == UNION { { q[i] : i \in 1..Len(q) } : q \in GotoPrograms }

\* Statements entered without a line number, and numbered lines, two of
\* them with numbers that are out of range.
\*   5 label A
\*   10 let x = 1
\*   0 label A
\*   256 label A
\*   label A
\*   goto A
\*   Reset(7)
\*   var x : int
\*   let x = 1
DirectLines ==
  { Str(<<"5", " ", "l", "a", "b", "e", "l", " ", "A">>),
    Str(<<"1", "0", " ", "l", "e", "t", " ", "x", " ", "=", " ", "1">>),
    Str(<<"0", " ", "l", "a", "b", "e", "l", " ", "A">>),
    Str(<<"2", "5", "6", " ", "l", "a", "b", "e", "l", " ", "A">>),
    Str(<<"l", "a", "b", "e", "l", " ", "A">>),
    Str(<<"g", "o", "t", "o", " ", "A">>),
    Str(<<"R", "e", "s", "e", "t", "(", "7", ")">>),
    Str(<<"v", "a", "r", " ", "x", " ", ":", " ", "i", "n", "t">>),
    Str(<<"l", "e", "t", " ", "x", " ", "=", " ", "1">>) }

\* Programs whose goto names a variable that holds a number, and labels.
\*   5 var L : int / 10 let L = 3 / 20 goto L
\*   5 label A / 10 Reset(1) / 20 goto A
\*   5 goto A / 10 if 0 / 20 label A
CursorPrograms ==
  { << Str(<<"5", " ", "v", "a", "r", " ", "L", " ", ":", " ", "i", "n", "t">>),
       Str(<<"1", "0", " ", "l", "e", "t", " ", "L", " ", "=", " ", "3">>),
       Str(<<"2", "0", " ", "g", "o", "t", "o", " ", "L">>) >>,
    << Str(<<"5", " ", "l", "a", "b", "e", "l", " ", "A">>),
       Str(<<"1", "0", " ", "R", "e", "s", "e", "t", "(", "1", ")">>),
       Str(<<"2", "0", " ", "g", "o", "t", "o", " ", "A">>) >>,
    << Str(<<"5", " ", "g", "o", "t", "o", " ", "A">>),
       Str(<<"1", "0", " ", "i", "f", " ", "0">>),
       Str(<<"2", "0", " ", "l", "a", "b", "e", "l", " ", "A">>) >> }

CursorLines == UNION { { q[i] : i \in 1..Len(q) } : q \in CursorPrograms }

\* Stored programs without a goto; the seventh leaves no room in the buffer
\* for the characters of a command.
\*   5 if 0 / 10 Reset(1) / 20 Reset(2)
\*   5 if 1 / 10 Reset(1) / 20 if 0
\*   5 Reset(300) / 10 Reset(1)
\*   5 Pause(0,0,1) / 10 Reset(1)
\*   5 label A / 10 label A / 20 Reset(1)
\*   5 Reset(y) / 10 Reset(1)
\*   1 Rain(1,2) / 2 Rain(1,2) / 3 let x = 1 / 4 Rain(1,2)
\*   1 Rain(1,2) / 2 Rain(1,2) / 3 let x = 1
\*   (no line)
StraightPrograms ==
  { << Str(<<"5", " ", "i", "f", " ", "0">>),
       Str(<<"1", "0", " ", "R", "e", "s", "e", "t", "(", "1", ")">>),
       Str(<<"2", "0", " ", "R", "e", "s", "e", "t", "(", "2", ")">>) >>,
    << Str(<<"5", " ", "i", "f", " ", "1">>),
       Str(<<"1", "0", " ", "R", "e", "s", "e", "t", "(", "1", ")">>),
       Str(<<"2", "0", " ", "i", "f", " ", "0">>) >>,
    << Str(<<"5", " ", "R", "e", "s", "e", "t", "(", "3", "0", "0", ")">>),
       Str(<<"1", "0", " ", "R", "e", "s", "e", "t", "(", "1", ")">>) >>,
    << Str(<<"5", " ", "P", "a", "u", "s", "e", "(", "0", ",", "0", ",", "1", ")">>),
       Str(<<"1", "0", " ", "R", "e", "s", "e", "t", "(", "1", ")">>) >>,
    << Str(<<"5", " ", "l", "a", "b", "e", "l", " ", "A">>),
       Str(<<"1", "0", " ", "l", "a", "b", "e", "l", " ", "A">>),
       Str(<<"2", "0", " ", "R", "e", "s", "e", "t", "(", "1", ")">>) >>,
    << Str(<<"5", " ", "R", "e", "s", "e", "t", "(", "y", ")">>),
       Str(<<"1", "0", " ", "R", "e", "s", "e", "t", "(", "1", ")">>) >>,
    << Str(<<"1", " ", "R", "a", "i", "n", "(", "1", ",", "2", ")">>),
       Str(<<"2", " ", "R", "a", "i", "n", "(", "1", ",", "2", ")">>),
       Str(<<"3", " ", "l", "e", "t", " ", "x", " ", "=", " ", "1">>),
       Str(<<"4", " ", "R", "a", "i", "n", "(", "1", ",", "2", ")">>) >>,
    << Str(<<"1", " ", "R", "a", "i", "n", "(", "1", ",", "2", ")">>),
       Str(<<"2", " ", "R", "a", "i", "n", "(", "1", ",", "2", ")">>),
       Str(<<"3", " ", "l", "e", "t", " ", "x", " ", "=", " ", "1">>) >>,
    <<  >> }

\* The lines of the programs without a goto.
\*   1 Rain(1,2)
\*   10 Reset(1)
\*   10 label A
\*   2 Rain(1,2)
\*   20 Reset(1)
\*   20 Reset(2)
\*   20 if 0
\*   3 let x = 1
\*   4 Rain(1,2)
\*   5 Pause(0,0,1)
\*   5 Reset(300)
\*   5 Reset(y)
\*   5 if 0
\*   5 if 1
\*   5 label A
StraightLines ==
  { Str(<<"1", " ", "R", "a", "i", "n", "(", "1", ",", "2", ")">>),
    Str(<<"1", "0", " ", "R", "e", "s", "e", "t", "(", "1", ")">>),
    Str(<<"1", "0", " ", "l", "a", "b", "e", "l", " ", "A">>),
    Str(<<"2", " ", "R", "a", "i", "n", "(", "1", ",", "2", ")">>),
    Str(<<"2", "0", " ", "R", "e", "s", "e", "t", "(", "1", ")">>),
    Str(<<"2", "0", " ", "R", "e", "s", "e", "t", "(", "2", ")">>),
    Str(<<"2", "0", " ", "i", "f", " ", "0">>),
    Str(<<"3", " ", "l", "e", "t", " ", "x", " ", "=", " ", "1">>),
    Str(<<"4", " ", "R", "a", "i", "n", "(", "1", ",", "2", ")">>),
    Str(<<"5", " ", "P", "a", "u", "s", "e", "(", "0", ",", "0", ",", "1", ")">>),
    Str(<<"5", " ", "R", "e", "s", "e", "t", "(", "3", "0", "0", ")">>),
    Str(<<"5", " ", "R", "e", "s", "e", "t", "(", "y", ")">>),
    Str(<<"5", " ", "i", "f", " ", "0">>),
    Str(<<"5", " ", "i", "f", " ", "1">>),
    Str(<<"5", " ", "l", "a", "b", "e", "l", " ", "A">>) }

\* Lines with one-digit numbers that fill the buffer to its last bytes.
\*   1 Rain(1,2)
\*   2 Rain(1,2)
\*   3 let x = 1
\*   4 Rain(1,2)
\*   5 Rain(1,2)
FillLines ==
  { Str(<<"1", " ", "R", "a", "i", "n", "(", "1", ",", "2", ")">>),
    Str(<<"2", " ", "R", "a", "i", "n", "(", "1", ",", "2", ")">>),
    Str(<<"3", " ", "l", "e", "t", " ", "x", " ", "=", " ", "1">>),
    Str(<<"4", " ", "R", "a", "i", "n", "(", "1", ",", "2", ")">>),
    Str(<<"5", " ", "R", "a", "i", "n", "(", "1", ",", "2", ")">>) }

\* The sample program RainbowTest, line by line as it is typed.
\*   005 var x : int
\*   020 let x = 10
\*   035 label Loop
\*   050 print "Rainbow "
\*   065 print x
\*   080 print "\n"
\*   095 Speed(255,x)
\*   110 Rain(255,0)
\*   125 Pause(0,3,0)
\*   140 print "Cycle\n"
\*   155 Cycle(255)
\*   170 Pause(0,3,0)
\*   185 let x = x - 2
\*   200 if x != 0
\*   215 goto Loop
\*   230 Reset(255)
\*   245 print "*** End ***"
RainbowTest ==
  << Str(<<"0", "0", "5", " ", "v", "a", "r", " ", "x", " ", ":", " ", "i", "n", "t">>),
     Str(<<"0", "2", "0", " ", "l", "e", "t", " ", "x", " ", "=", " ", "1", "0">>),
     Str(<<"0", "3", "5", " ", "l", "a", "b", "e", "l", " ", "L", "o", "o", "p">>),
     Str(<<"0", "5", "0", " ", "p", "r", "i", "n", "t", " ", "<dq>", "R", "a", "i", "n", "b", "o", "w", " ", "<dq>">>),
     Str(<<"0", "6", "5", " ", "p", "r", "i", "n", "t", " ", "x">>),
     Str(<<"0", "8", "0", " ", "p", "r", "i", "n", "t", " ", "<dq>", "<bs>", "n", "<dq>">>),
     Str(<<"0", "9", "5", " ", "S", "p", "e", "e", "d", "(", "2", "5", "5", ",", "x", ")">>),
     Str(<<"1", "1", "0", " ", "R", "a", "i", "n", "(", "2", "5", "5", ",", "0", ")">>),
     Str(<<"1", "2", "5", " ", "P", "a", "u", "s", "e", "(", "0", ",", "3", ",", "0", ")">>),
     Str(<<"1", "4", "0", " ", "p", "r", "i", "n", "t", " ", "<dq>", "C", "y", "c", "l", "e", "<bs>", "n", "<dq>">>),
     Str(<<"1", "5", "5", " ", "C", "y", "c", "l", "e", "(", "2", "5", "5", ")">>),
     Str(<<"1", "7", "0", " ", "P", "a", "u", "s", "e", "(", "0", ",", "3", ",", "0", ")">>),
     Str(<<"1", "8", "5", " ", "l", "e", "t", " ", "x", " ", "=", " ", "x", " ", "-", " ", "2">>),
     Str(<<"2", "0", "0", " ", "i", "f", " ", "x", " ", "!", "=", " ", "0">>),
     Str(<<"2", "1", "5", " ", "g", "o", "t", "o", " ", "L", "o", "o", "p">>),
     Str(<<"2", "3", "0", " ", "R", "e", "s", "e", "t", "(", "2", "5", "5", ")">>),
     Str(<<"2", "4", "5", " ", "p", "r", "i", "n", "t", " ", "<dq>", "*", "*", "*", " ", "E", "n", "d", " ", "*", "*", "*", "<dq>">>) >>

RainbowLines == { RainbowTest[i] : i \in 1..Len(RainbowTest) }

\* Programs that print variables of each type, and an undeclared one.
\*   5 var b : bool / 10 print b / 20 print b
\*   5 var b : bool / 10 let b = 1 / 20 print b
\*   5 var f : float / 10 print f / 20 print f
\*   5 var x : int / 10 let x = 7 / 20 print x
\*   5 print z / 10 print z
PrintPrograms ==
  { << Str(<<"5", " ", "v", "a", "r", " ", "b", " ", ":", " ", "b", "o", "o", "l">>),
       Str(<<"1", "0", " ", "p", "r", "i", "n", "t", " ", "b">>),
       Str(<<"2", "0", " ", "p", "r", "i", "n", "t", " ", "b">>) >>,
    << Str(<<"5", " ", "v", "a", "r", " ", "b", " ", ":", " ", "b", "o", "o", "l">>),
       Str(<<"1", "0", " ", "l", "e", "t", " ", "b", " ", "=", " ", "1">>),
       Str(<<"2", "0", " ", "p", "r", "i", "n", "t", " ", "b">>) >>,
    << Str(<<"5", " ", "v", "a", "r", " ", "f", " ", ":", " ", "f", "l", "o", "a", "t">>),
       Str(<<"1", "0", " ", "p", "r", "i", "n", "t", " ", "f">>),
       Str(<<"2", "0", " ", "p", "r", "i", "n", "t", " ", "f">>) >>,
    << Str(<<"5", " ", "v", "a", "r", " ", "x", " ", ":", " ", "i", "n", "t">>),
       Str(<<"1", "0", " ", "l", "e", "t", " ", "x", " ", "=", " ", "7">>),
       Str(<<"2", "0", " ", "p", "r", "i", "n", "t", " ", "x">>) >>,
    << Str(<<"5", " ", "p", "r", "i", "n", "t", " ", "z">>),
       Str(<<"1", "0", " ", "p", "r", "i", "n", "t", " ", "z">>) >> }

PrintLines == UNION { { q[i] : i \in 1..Len(q) } : q \in PrintPrograms }

\* Lines of a program whose let names a variable no line declares, and
\* immediate declarations.
\*   5 var x : int
\*   10 let x = y + 1
\*   10 let x = 2
\*   var y : int
\*   var x : int
LazyLines ==
  { Str(<<"5", " ", "v", "a", "r", " ", "x", " ", ":", " ", "i", "n", "t">>),
    Str(<<"1", "0", " ", "l", "e", "t", " ", "x", " ", "=", " ", "y", " ", "+", " ", "1">>),
    Str(<<"1", "0", " ", "l", "e", "t", " ", "x", " ", "=", " ", "2">>),
    Str(<<"v", "a", "r", " ", "y", " ", ":", " ", "i", "n", "t">>),
    Str(<<"v", "a", "r", " ", "x", " ", ":", " ", "i", "n", "t">>) }

\* What processWipeCommand makes of a statement line before it touches the
\* program buffer: the command token, the line number (0 for an immediate
\* statement), and the outcome c of wipeParseStatement.
\* The test of the line number in the WIPE_CMD_LINENUM case: "Bad line#".
AnyLineNum(numbered, lineNum) == FALSE

BadLineNum(numbered, lineNum) == numbered /\ ~(lineNum >= 1 /\ lineNum <= MAX_LINE_NUM)

Statement ==
  [l \in EditLines \cup RunLines \cup SymLines \cup ImmediateLines \cup ExprLines
        \cup CallLines \cup LazyLines
        \cup PrintLines \cup RainbowLines \cup FillLines \cup StraightLines \cup CursorLines \cup DirectLines \cup GotoLines \cup LabelProgramLines |->
     With([sc \in {LineCommand(l)} |->
     With([num \in {wipeParseInt(sc.tok, sc.pos, BufLen(l), TRUE)} |->
     With([numbered \in {sc.token = WIPE_CMD_LINENUM} |->
     With([lineNum \in {IF numbered THEN num.val ELSE 0} |->
         [token    |-> sc.token,
          numbered |-> numbered,
          lineNum  |-> lineNum,
          badNum   |-> BadLineNum(numbered, lineNum),
          c        |-> wipeParseStatement(lineNum % 256, WIPE_UNDEF, l,
                                          IF numbered THEN num.tok ELSE sc.tok,
                                          IF numbered THEN num.pos ELSE sc.pos,
                                          BufLen(l))]])])])])]

\* The buffer after the lines of q have been entered at the prompt one
\* after the other: [prog, progByte].
RECURSIVE Stored(_, _, _)
Stored(q, prog, progByte) ==
  IF q = << >> THEN [prog |-> prog, progByte |-> progByte]
  ELSE IF ~LineAccepted(Head(q), progByte) THEN Stored(Tail(q), prog, progByte)
  ELSE With([c \in {Statement[Head(q)].c} |->
       With([sv \in {wipeSaveLine(WrSeq(prog, progByte, c.bytes), progByte,
                                  progByte + c.end, 0)} |->
           Stored(Tail(q), sv.prog, sv.lineStart)])])

\* What processWipeCommand makes of a del line: the command token and the
\* outcome r of wipeParseLineRange.
LineRange ==
  [l \in DelLines \cup RangeLines |->
     With([sc \in {LineCommand(l)} |->
         [token |-> sc.token,
          r     |-> wipeParseLineRange(sc.tok, sc.pos, BufLen(l))]])]


\* What processWipeCommand makes of a save, load or erase line: the command
\* token, the length n of the file name (0: none) and the MAX_PROGNAME_LEN + 1
\* characters at progName.
FileCommand ==
  [l \in DirLines |->
     With([sc \in {LineCommand(l)} |->
     With([id \in {wipeScanIdentifier(sc.tok, sc.pos, BufLen(l), MAX_PROGNAME_LEN)} |->
         [token |-> sc.token,
          n     |-> id.n,
          name  |-> Sub(id.tok, id.start, MAX_PROGNAME_LEN + 1)]])])]


(***************************************************************************)
(* processWipeCommand, one action per kind of console line.  Every action  *)
(* is the whole handler: input stage, scan, the command's work, and the    *)
(* return to the prompt.                                                   *)
(***************************************************************************)
AtPrompt == engine = "Idle" /\ nCmds < MaxCmds

\* A line the input stage drops: nothing changes but the prompt.
Dropped(l) ==
  /\ m_breakProg' = FALSE
  /\ last' = [cmd |-> "dropped", line |-> l]
  /\ nCmds' = nCmds + 1
  /\ UNCHANGED << m_program, m_wipeProgByte, m_wipeLineStart, m_wipeRunByte,
                  m_symTbl, eeprom, m_wipeDirSpace, m_wipeSaveAddr, engine, sink >>

\* A numbered line or an immediate statement (the WIPE_CMD_LINENUM and
\* default cases).
StatementLine(l) ==
  \E ls \in {m_wipeProgByte}, s \in {Statement[l]} :
  \E prog \in {WrSeq(m_program, ls, s.c.bytes)}, lines \in {StoredLines} :
      IF s.badNum
        THEN /\ m_wipeLineStart' = ls
             /\ m_breakProg' = FALSE
             /\ last' = [cmd |-> "badnum", line |-> l]
             /\ UNCHANGED << m_program, m_wipeProgByte, m_wipeRunByte, m_symTbl, sink >>
      ELSE IF ~s.c.ok
        THEN /\ m_program' = prog
             /\ m_wipeLineStart' = ls
             /\ m_wipeProgByte' = ls
             /\ m_breakProg' = FALSE
             /\ last' = [cmd |-> "nocompile", line |-> l, num |-> s.lineNum]
             /\ UNCHANGED << m_wipeRunByte, m_symTbl, sink >>
      ELSE IF s.numbered
        THEN \E g \in Garbage :
               \E sv \in {wipeSaveLine(prog, ls, ls + s.c.end, g)} :
                   /\ m_program' = sv.prog
                   /\ m_wipeLineStart' = sv.lineStart
                   /\ m_wipeProgByte' = sv.lineStart
                   /\ m_breakProg' = FALSE
                   /\ last' = [cmd |-> "line", line |-> l, num |-> s.lineNum,
                               rec |-> s.c.bytes, saved |-> sv.ok,
                               existed |-> HasLine(lines, s.lineNum),
                               n0 |-> Len(lines)]
                   /\ UNCHANGED << m_wipeRunByte, m_symTbl, sink >>
      ELSE \E g \in Garbage, inChar \in {NUL, cCancel} :
             \E ex \in {wipeExecuteStatement(prog, ls, ls, ls, m_symTbl, ls, FALSE,
                                              inChar, FALSE, g)} :
                 /\ m_program' = prog
                 /\ m_wipeLineStart' = ex.lineStart
                 /\ m_wipeProgByte' = ex.lineStart
                 /\ m_wipeRunByte' = ex.runByte
                 /\ m_symTbl' = ex.tbl
                 /\ m_breakProg' = ex.breakProg
                 /\ sink' = sink \o ex.calls
                 /\ last' = [cmd |-> "immediate", line |-> l, rec |-> s.c.bytes,
                             how |-> ex.how, err |-> ex.err, calls |-> ex.calls,
                             printed |-> ex.printed]

EnterFrom(lines) ==
  /\ AtPrompt
  /\ \E l \in lines :
       /\ Statement[l].token \in {WIPE_CMD_LINENUM, WIPE_UNDEF}
       /\ IF LineAccepted(l, m_wipeProgByte)
            THEN /\ StatementLine(l)
                 /\ nCmds' = nCmds + 1
                 /\ UNCHANGED << eeprom, m_wipeDirSpace, m_wipeSaveAddr, engine >>
            ELSE Dropped(l)

EnterLine == EnterFrom(EditLines)

\* An immediate statement typed at the prompt.
EnterImmediate == EnterFrom(ImmediateLines)

\* An immediate let statement typed at the prompt.
EnterExpr == EnterFrom(ExprLines)

\* Function-call statements entered in one behaviour.
MaxCalls == 2

\* A function-call statement typed at the prompt.
EnterCall == nCmds < MaxCalls /\ EnterFrom(CallLines)

\* A line of the program with the undeclared variable, or a declaration.
EnterLazy == EnterFrom(LazyLines)

\* A statement for immediate execution, or a numbered line.
EnterDirect == EnterFrom(DirectLines)

\* A line that fills the buffer.
EnterFill == EnterFrom(FillLines)

\* del [<lower>] [- <upper>]
DelFrom(lines0) ==
  /\ AtPrompt
  /\ \E l \in lines0 :
       \E c \in {LineRange[l]}, lines \in {StoredLines} :
       \E r \in {c.r} :
           /\ c.token = WIPE_CMD_DEL
           /\ IF ~LineAccepted(l, m_wipeProgByte) THEN Dropped(l)
              ELSE /\ IF r.ok
                        THEN \E g \in Garbage :
                               \E d \in {wipeDelLines(m_program, m_wipeProgByte,
                                                       m_wipeProgByte, r.lower, r.upper, g)} :
                                   /\ m_program' = d.prog
                                   /\ m_wipeProgByte' = d.progByte
                                   /\ m_wipeLineStart' = d.lineStart
                        ELSE /\ m_wipeLineStart' = m_wipeProgByte
                             /\ UNCHANGED << m_program, m_wipeProgByte >>
                   /\ m_breakProg' = FALSE
                   /\ last' = [cmd |-> "del", line |-> l, ok |-> r.ok,
                               lower |-> r.lower, upper |-> r.upper,
                               n0 |-> Len(lines)]
                   /\ nCmds' = nCmds + 1
                   /\ UNCHANGED << m_wipeRunByte, m_symTbl, eeprom, m_wipeDirSpace,
                                   m_wipeSaveAddr, engine, sink >>

DelCmd == DelFrom(DelLines)

\* A del command in one of the forms of the line range.
DelRange == DelFrom(RangeLines)

\* renum.  A division that does not return leaves the interpreter halted.
RenumCmd ==
  /\ AtPrompt
  /\ IF ~LineAccepted(RenumLine, m_wipeProgByte) THEN Dropped(RenumLine)
     ELSE /\ LineCommand(RenumLine).token = WIPE_CMD_RENUM
          /\ \E g \in Garbage, z \in DivByZero :
               \E rn \in {wipeRenumLines(m_program, m_wipeProgByte, g, z)},
                  lines \in {StoredLines} :
                   /\ m_program' = rn.prog
                   /\ engine' = IF rn.done THEN "Idle" ELSE "Halted"
                   /\ last' = [cmd |-> "renum", done |-> rn.done, n0 |-> Len(lines)]
          /\ m_wipeLineStart' = m_wipeProgByte
          /\ m_breakProg' = FALSE
          /\ nCmds' = nCmds + 1
          /\ UNCHANGED << m_wipeProgByte, m_wipeRunByte, m_symTbl, eeprom,
                          m_wipeDirSpace, m_wipeSaveAddr, sink >>

\* What every command other than a statement line leaves alone.
FileFrame ==
  /\ m_wipeLineStart' = m_wipeProgByte
  /\ m_breakProg' = FALSE
  /\ nCmds' = nCmds + 1
  /\ UNCHANGED << m_wipeRunByte, m_symTbl, engine, sink >>

\* save <name>.  (g is read only when the occupied length lies past the
\* array.)
SaveCmd ==
  /\ AtPrompt
  /\ \E l \in DirLines :
       \E f \in {FileCommand[l]} :
           /\ f.token = WIPE_CMD_SAVE
           /\ \E why \in {IF m_wipeProgByte + DIR_PROG_OFFS > m_wipeDirSpace
                             THEN "Out of file space"
                           ELSE IF f.n = 0 THEN "No filename"
                           ELSE IF wipeDirFileFind(eeprom, f.name).entry # 0
                             THEN "File exists"
                           ELSE "Saved"} :
              IF ~LineAccepted(l, m_wipeProgByte) THEN Dropped(l)
              ELSE /\ IF why = "Saved"
                        THEN \E g \in IF m_wipeProgByte > MAX_PROG_SIZE
                                        THEN Garbage ELSE {0} :
                               \E sv \in {wipeDirFileSave(eeprom, m_wipeSaveAddr,
                                             m_wipeDirSpace, m_program, m_wipeProgByte,
                                             f.name, g)} :
                                   /\ eeprom' = sv.ee
                                   /\ m_wipeSaveAddr' = sv.saveAddr
                                   /\ m_wipeDirSpace' = sv.dirSpace
                        ELSE UNCHANGED << eeprom, m_wipeSaveAddr, m_wipeDirSpace >>
                   /\ last' = [cmd |-> "save", line |-> l, name |-> f.name,
                               ok |-> why = "Saved", why |-> why]
                   /\ FileFrame
                   /\ UNCHANGED << m_program, m_wipeProgByte >>

\* load <name>
LoadCmd ==
  /\ AtPrompt
  /\ \E l \in DirLines :
       \E f \in {FileCommand[l]} :
           /\ f.token = WIPE_CMD_LOAD
           /\ \E ld \in {wipeDirFileLoad(eeprom, m_program, m_wipeProgByte, f.name)} :
              \E ok \in {f.n # 0 /\ ld.ok} :
              IF ~LineAccepted(l, m_wipeProgByte) THEN Dropped(l)
              ELSE /\ m_program' = IF ok THEN ld.prog ELSE m_program
                   /\ m_wipeProgByte' = IF ok THEN ld.progByte ELSE m_wipeProgByte
                   /\ m_wipeLineStart' = IF ok THEN ld.progByte ELSE m_wipeProgByte
                   /\ m_breakProg' = FALSE
                   /\ nCmds' = nCmds + 1
                   /\ last' = [cmd |-> "load", line |-> l, name |-> f.name, ok |-> ok]
                   /\ UNCHANGED << m_wipeRunByte, m_symTbl, engine, sink, eeprom,
                                   m_wipeSaveAddr, m_wipeDirSpace >>

\* erase <name>
EraseCmd ==
  /\ AtPrompt
  /\ \E l \in DirLines :
       \E f \in {FileCommand[l]} :
           /\ f.token = WIPE_CMD_ERASE
           /\ \E er \in {wipeDirFileErase(eeprom, m_wipeSaveAddr, m_wipeDirSpace,
                                           f.name)} :
              \E ok \in {f.n # 0 /\ er.found} :
              IF ~LineAccepted(l, m_wipeProgByte) THEN Dropped(l)
              ELSE /\ eeprom' = IF ok THEN er.ee ELSE eeprom
                   /\ m_wipeSaveAddr' = IF ok THEN er.saveAddr ELSE m_wipeSaveAddr
                   /\ m_wipeDirSpace' = IF ok THEN er.dirSpace ELSE m_wipeDirSpace
                   /\ last' = [cmd |-> "erase", line |-> l, name |-> f.name, ok |-> ok]
                   /\ FileFrame
                   /\ UNCHANGED << m_program, m_wipeProgByte >>

\* The names wipeSymbolLookup can find in a table.
Visible(tbl) == { tbl[i].symbol : i \in { j \in SymIdx : tbl[j].typeId # WIPE_ID_UNDEF } }

\* run: the input stage and wipeRunProgram up to its loop.
RunCmd ==
  /\ AtPrompt
  /\ IF ~LineAccepted(RunLine, m_wipeProgByte) THEN Dropped(RunLine)
     ELSE /\ LineCommand(RunLine).token = WIPE_CMD_RUN
          /\ m_wipeLineStart' = m_wipeProgByte
          /\ m_breakProg' = FALSE
          /\ m_wipeRunByte' = 0
          /\ m_symTbl' = wipeSymbolsClear
          /\ engine' = "Executing"
          /\ last' = [cmd |-> "run", line |-> RunLine, had |-> Visible(m_symTbl)]
          /\ nCmds' = nCmds + 1
          /\ UNCHANGED << m_program, m_wipeProgByte, eeprom, m_wipeDirSpace,
                          m_wipeSaveAddr, sink >>

\* One turn of the loop of wipeRunProgram: the statement at the cursor.
ExecStep ==
  /\ engine = "Executing"
  /\ m_wipeRunByte < m_wipeProgByte
  /\ nCmds < MaxSteps
  /\ \E inChar \in {NUL, cCancel}, brk \in BOOLEAN, g \in Garbage :
       \E ex \in {wipeExecuteStatement(m_program, m_wipeProgByte, m_wipeRunByte,
                                        m_wipeLineStart, m_symTbl, m_wipeRunByte,
                                        m_breakProg, inChar, brk, g)} :
           /\ m_wipeRunByte' = ex.rc
           /\ m_wipeLineStart' = ex.lineStart
           /\ m_symTbl' = ex.tbl
           /\ m_breakProg' = ex.breakProg
           /\ sink' = sink \o ex.calls
           /\ last' = [cmd |-> "exec", at |-> m_wipeRunByte,
                       stmt |-> Rd(m_program, m_wipeRunByte + TKNZD_STMT_OFFS, g),
                       inChar |-> inChar, how |-> ex.how, err |-> ex.err,
                       calls |-> ex.calls, printed |-> ex.printed]
           /\ nCmds' = nCmds + 1
           /\ UNCHANGED << m_program, m_wipeProgByte, eeprom, m_wipeDirSpace,
                           m_wipeSaveAddr, engine >>

\* How a turn of the loop ended the run, if it did.
Stopped(step) == step.cmd = "exec" /\ step.how \in {"break", "cancel", "error"}

\* A loop exit that clears the symbol table on its way out.
RunExitClears ==
  /\ engine = "Executing"
  /\ ~(m_wipeRunByte < m_wipeProgByte)
  /\ engine' = IF Stopped(last) THEN "Aborted" ELSE "Done"
  /\ m_symTbl' = wipeSymbolsClear
  /\ last' = [cmd |-> "exit", aborted |-> Stopped(last)]
  /\ UNCHANGED << m_program, m_wipeProgByte, m_wipeLineStart, m_wipeRunByte,
                  m_breakProg, eeprom, m_wipeDirSpace, m_wipeSaveAddr,
                  sink, nCmds >>

\* The loop of wipeRunProgram is left: the cursor is not below the occupied
\* length.
RunExit ==
  /\ engine = "Executing"
  /\ ~(m_wipeRunByte < m_wipeProgByte)
  /\ engine' = IF Stopped(last) THEN "Aborted" ELSE "Done"
  /\ last' = [cmd |-> "exit", aborted |-> Stopped(last)]
  /\ UNCHANGED << m_program, m_wipeProgByte, m_wipeLineStart, m_wipeRunByte,
                  m_symTbl, m_breakProg, eeprom, m_wipeDirSpace, m_wipeSaveAddr,
                  sink, nCmds >>

\* Back in processWipeCommand: waspReset(BROADCASTID), then the prompt.
RunReturn ==
  /\ engine \in {"Done", "Aborted"}
  /\ engine' = "Idle"
  /\ sink' = Append(sink, [op |-> "waspReset", args |-> <<BROADCASTID>>])
  /\ last' = [cmd |-> "prompt"]
  /\ UNCHANGED << m_program, m_wipeProgByte, m_wipeLineStart, m_wipeRunByte,
                  m_symTbl, m_breakProg, eeprom, m_wipeDirSpace, m_wipeSaveAddr,
                  nCmds >>

\* The line editor on its own: lines entered and deleted.
NextEdit == EnterLine \/ DelCmd

SpecEdit == Init /\ [][NextEdit]_vars


(***************************************************************************)
(* Properties of the line editor.                                          *)
(***************************************************************************)
Ascending(lines) ==
  \A i, j \in 1..Len(lines) : i < j => LineNumOf(lines[i]) < LineNumOf(lines[j])

C2_FailedCompileKeepsBuffer ==
  [][ last'.cmd = "nocompile" =>
        /\ m_wipeProgByte' = m_wipeProgByte
        /\ StoredLines' = StoredLines
        /\ \A i \in ProgIdx : i < m_wipeProgByte => m_program'[i] = m_program[i] ]_vars

\* A numbered line has failed to compile while a line of the same number and
\* another line are stored.
C2_Witness ==
  /\ last.cmd = "nocompile"
  /\ last.num > 0
  /\ HasLine(StoredLines, last.num)
  /\ Len(StoredLines) >= 2

\* The lines without those numbered n, in their order.
RECURSIVE WithoutLine(_, _)
WithoutLine(lines, n) ==
  IF lines = << >> THEN << >>
  ELSE (IF LineNumOf(Head(lines)) = n THEN << >> ELSE << Head(lines) >>)
       \o WithoutLine(Tail(lines), n)

\* The record put before the first line of a higher number.
RECURSIVE InsertSorted(_, _)
InsertSorted(lines, rec) ==
  IF lines = << >> THEN << rec >>
  ELSE IF LineNumOf(Head(lines)) > LineNumOf(rec) THEN << rec >> \o lines
  ELSE << Head(lines) >> \o InsertSorted(Tail(lines), rec)

RECURSIVE OutsideRange(_, _, _)
OutsideRange(lines, lower, upper) ==
  IF lines = << >> THEN << >>
  ELSE (IF LineNumOf(Head(lines)) \in lower..upper THEN << >> ELSE << Head(lines) >>)
       \o OutsideRange(Tail(lines), lower, upper)

NextDir == EnterLine \/ SaveCmd \/ LoadCmd \/ EraseCmd

SpecDir == Init /\ [][NextDir]_vars

\* C3: a load that follows a successful save of the same name succeeds and
\* leaves the occupied length and every byte below it as they were at the
\* save, whatever the buffer holds.
C3_SaveLoadRoundTrip ==
  [][ (last.cmd = "save" /\ last.ok /\ last'.cmd = "load" /\ last'.name = last.name) =>
        /\ last'.ok
        /\ m_wipeProgByte' = m_wipeProgByte
        /\ StoredLines' = StoredLines
        /\ \A i \in ProgIdx : i < m_wipeProgByte => m_program'[i] = m_program[i] ]_vars

\* The entries a walk of the directory visits, as wipeDirList lists them.
RECURSIVE DirList(_, _)
DirList(ee, currDirEntry) ==
  LET currFileSize == EeSize(ee, currDirEntry)
  IN  IF ~(currFileSize # 0 /\ currDirEntry < DirEnd) THEN << >>
      ELSE << [entry |-> currDirEntry, fileSize |-> currFileSize] >>
           \o DirList(ee, (currDirEntry + currFileSize + DIR_PROG_OFFS) % 65536)

wipeDirList(ee) == DirList(ee, EEPROM_PROG_DIR_START)

\* Payload plus header, summed over the entries.
RECURSIVE DirUsed(_)
DirUsed(entries) ==
  IF entries = << >> THEN 0
  ELSE Head(entries).fileSize + DIR_PROG_OFFS + DirUsed(Tail(entries))

\* C4: at every prompt the free-space counter plus the payload and header
\* sizes of all saved programs is the capacity of the directory region.
C4_FreeSpaceAccounts ==
  m_wipeDirSpace + DirUsed(wipeDirList(eeprom)) = EEPROM_PROG_LEN

\* The entries written below the directory's write address, first to last,
\* whatever their size fields hold.
RECURSIVE EntriesBelow(_, _, _)
EntriesBelow(ee, saveAddr, at) ==
  IF ~(at < saveAddr /\ at < DirEnd) THEN << >>
  ELSE << [entry |-> at, fileSize |-> EeSize(ee, at)] >>
       \o EntriesBelow(ee, saveAddr, at + EeSize(ee, at) + DIR_PROG_OFFS)

SavedPrograms == EntriesBelow(eeprom, m_wipeSaveAddr, EEPROM_PROG_DIR_START)

\* A saved program carries the name.
SavedAs(name) ==
  \E i \in 1..Len(SavedPrograms) : NameMatch(eeprom, SavedPrograms[i].entry, name, 0)

\* C13: a save fails, and leaves the directory, the free-space counter and
\* the write address as they were, when a saved program of that name exists
\* or when the program size plus the header exceeds the free space.
C13_SaveRefused ==
  [][ /\ last'.cmd = "save"
      /\ \/ SavedAs(last'.name)
         \/ m_wipeProgByte + DIR_PROG_OFFS > m_wipeDirSpace
      => /\ ~last'.ok
         /\ eeprom' = eeprom
         /\ m_wipeDirSpace' = m_wipeDirSpace
         /\ m_wipeSaveAddr' = m_wipeSaveAddr ]_vars

\* What a directory entry holds: its name field, its size and its bytes.
FileAt(ee, e) ==
  [ name  |-> [i \in 0..MAX_PROGNAME_LEN |-> EeRead(ee, e.entry + DIR_NAME_OFFS + i)],
    size  |-> e.fileSize,
    bytes |-> [i \in 0..(e.fileSize - 1) |-> EeRead(ee, e.entry + DIR_PROG_OFFS + i)] ]

\* The saved programs, first to last.
SavedFiles == [i \in 1..Len(SavedPrograms) |-> FileAt(eeprom, SavedPrograms[i])]

\* The sequence without its i-th element.
DropAt(q, i) == [k \in 1..(Len(q) - 1) |-> IF k < i THEN q[k] ELSE q[k + 1]]

\* The saved programs that carry the name, by their place in the directory.
PlacesOf(name) ==
  { i \in 1..Len(SavedPrograms) : NameMatch(eeprom, SavedPrograms[i].entry, name, 0) }

\* C14: erasing a saved program removes exactly its entry: the name is no
\* longer found, every other saved program is found with its size and bytes
\* and in its place among the others, and the free space has grown by the
\* erased payload plus the header; erasing a name that is not saved changes
\* nothing.
C14_EraseRemovesExactlyOne ==
  [][ last'.cmd = "erase" =>
        IF PlacesOf(last'.name) = {}
          THEN /\ ~last'.ok
               /\ eeprom' = eeprom
               /\ m_wipeDirSpace' = m_wipeDirSpace
               /\ m_wipeSaveAddr' = m_wipeSaveAddr
          ELSE \E i \in PlacesOf(last'.name) :
                 /\ last'.ok
                 /\ SavedFiles' = DropAt(SavedFiles, i)
                 /\ wipeDirFileFind(eeprom', last'.name).entry = 0
                 /\ \A k \in 1..Len(SavedFiles') :
                       wipeDirFileFind(eeprom', SavedFiles'[k].name).fileSize
                         = SavedFiles'[k].size
                 /\ m_wipeDirSpace'
                      = m_wipeDirSpace + SavedFiles[i].size + DIR_PROG_OFFS ]_vars


(***************************************************************************)
(* Runs of stored programs.                                                *)
(***************************************************************************)
InitRun ==
  \E q \in RunPrograms :
     \E st \in {Stored(q, [i \in ProgIdx |-> 0], 0)} :
        InitWith(st.prog, st.progByte, EepromInit)

NextRun == RunCmd \/ ExecStep \/ RunExit \/ RunReturn

SpecRun == InitRun /\ [][NextRun]_vars

\* The offsets at which the stored lines start, first to last.
RECURSIVE OffsetsFrom(_, _, _)
OffsetsFrom(prog, progByte, at) ==
  LET n == Rd(prog, at + TKNZD_LEN_OFFS, 0)
  IN  IF at >= progByte \/ at >= MAX_PROG_SIZE \/ n = 0 THEN << >>
      ELSE <<at>> \o OffsetsFrom(prog, progByte, at + n)

LineOffsets == OffsetsFrom(m_program, m_wipeProgByte, 0)

\* The offset of the k-th stored line after the one at offset a; none: -1.
LineAfter(a, k) ==
  LET os == LineOffsets
      at == { i \in 1..Len(os) : os[i] = a }
  IN  IF \E i \in at : i + k <= Len(os)
        THEN os[(CHOOSE i \in at : TRUE) + k]
        ELSE 0 - 1

\* The run is over: the loop of wipeRunProgram takes no further turn.
RunOver == ~(m_wipeRunByte < m_wipeProgByte)

\* A turn of the loop executed a statement of kind stmt (it was neither
\* cancelled nor cut short by a cancel during an earlier pause).
Executed(step, stmt) ==
  /\ step.cmd = "exec"
  /\ step.stmt = stmt
  /\ step.how \notin {"cancel", "break"}

\* C5: the engine only moves Idle -> Executing -> (Done | Aborted) -> Idle;
\* it leaves Executing for Done when the cursor has reached the end of the
\* occupied buffer without a cancel or a reported error, for Aborted on a
\* cancel character or a reported execution error, and a statement that
\* is cancelled or reports an error is the last one of its run.
C5_EngineTransitions ==
  [][ /\ engine' # engine =>
           << engine, engine' >> \in { << "Idle", "Executing" >>,
                                       << "Executing", "Done" >>,
                                       << "Executing", "Aborted" >>,
                                       << "Done", "Idle" >>,
                                       << "Aborted", "Idle" >> }
      /\ (engine = "Executing" /\ engine' = "Done") =>
           /\ RunOver
           /\ last.cmd = "exec" => ~last.err /\ last.how \notin {"cancel", "break"}
      /\ (engine = "Executing" /\ engine' = "Aborted") =>
           last.cmd = "exec" /\ (last.err \/ last.how \in {"cancel", "break"})
      /\ (last'.cmd = "exec" /\ (last'.err \/ last'.how \in {"cancel", "break"})) =>
           RunOver'
    ]_vars

\* C6: an if whose expression is false passes over the stored line that
\* follows it and the run goes on at the line after that one (it is over
\* if there is none); an if whose expression is true goes on at the line
\* that follows it.  An if makes no command-sink call.
C6_IfSkipsNextLine ==
  [][ LET a    == m_wipeRunByte
          cond == wipeParseExpression(Mem(m_program, 0), a + TKNZD_STMT_OFFS + 1,
                                      WIPE_ID_BOOL, FALSE, m_symTbl, 0)
          to   == IF LowByte(cond.value) = 0 THEN LineAfter(a, 2)
                  ELSE LineAfter(a, 1)
      IN  (Executed(last', WIPE_IF) /\ cond.ok) =>
             /\ sink' = sink
             /\ IF to >= 0 THEN m_wipeRunByte' = to ELSE RunOver'
    ]_vars

C6_Witness ==
  /\ engine = "Executing"
  /\ Executed(last, WIPE_IF)
  /\ last.how = "skip"
  /\ m_wipeRunByte = LineAfter(last.at, 2)
  /\ ~RunOver

\* The offsets of the stored lines that are label <id>.
LabelLines(id) ==
  LET m  == Mem(m_program, 0)
      os == LineOffsets
  IN  { os[i] : i \in { j \in 1..Len(os) :
          /\ m[os[j] + TKNZD_STMT_OFFS] = WIPE_LABEL
          /\ LET p == os[j] + TKNZD_STMT_OFFS + 1
             IN  Sub(m, p, strlen(m, p)) = id } }

\* C7: an executed goto <id> that transfers control sets the cursor to
\* the offset of a stored line label <id>; when no stored line is
\* label <id> the goto fails, control is not transferred and the run is
\* over, aborted.
C7_GotoReachesLabel ==
  [][ LET m  == Mem(m_program, 0)
          p  == m_wipeRunByte + TKNZD_STMT_OFFS + 1
          id == Sub(m, p, strlen(m, p))
      IN  Executed(last', WIPE_GOTO) =>
             /\ last'.how = "jump" => m_wipeRunByte' \in LabelLines(id)
             /\ LabelLines(id) = {} =>
                  last'.how = "error" /\ last'.err /\ RunOver'
    ]_vars

\* The byte that carries an argument value within -128..255; a value
\* outside has none and stays as it is.
ArgByte(v) == IF v < 0 /\ v >= 0 - 128 THEN v + 256 ELSE v

\* C8: an executed function-call statement whose arguments all evaluate
\* makes exactly one command-sink call, that of its opcode with the
\* evaluated argument values; one of which an argument does not evaluate
\* makes none.
C8_OneSinkCallPerFunction ==
  [][ LET m  == Mem(m_program, 0)
          a  == m_wipeRunByte
          ps == EvalParms(m, a + TKNZD_STMT_OFFS + 4, m[a + TKNZD_STMT_OFFS + 2],
                          m_symTbl, 0, << >>, << >>, FALSE)
          vs == [k \in 1..Len(ps.wide) |-> ArgByte(ps.wide[k])]
      IN  Executed(last', WIPE_FUNC) =>
             IF ps.ok
               THEN sink' = Append(sink, SinkCall(m[a + TKNZD_STMT_OFFS + 1],
                                                  PadParms(vs, 0)))
               ELSE sink' = sink
    ]_vars

\* C9: when the cancel character is waiting as a statement is about to be
\* executed, the statement is not executed (no command-sink call, no
\* change of the symbol table or of the stored program), the run is over
\* and ends as Aborted with no further statement and no further call of a
\* statement; the calls made before stay in the record of calls.
C9_CancelStopsRun ==
  [][ /\ (last'.cmd = "exec" /\ last'.inChar = cCancel) =>
           /\ last'.calls = << >>
           /\ sink' = sink
           /\ m_symTbl' = m_symTbl
           /\ m_program' = m_program /\ m_wipeProgByte' = m_wipeProgByte
           /\ RunOver'
      /\ (last.cmd = "exec" /\ last.inChar = cCancel) =>
           /\ engine' = "Aborted"
           /\ last'.cmd # "exec"
           /\ sink' = sink
    ]_vars

C9_Witness ==
  /\ last.cmd = "exec"
  /\ last.inChar = cCancel
  /\ last.how = "cancel"
  /\ last.at > 0
  /\ Len(sink) > 0

(***************************************************************************)
(* Renumbering of stored programs.                                         *)
(***************************************************************************)
NextRenum == DelCmd \/ RenumCmd

SpecRenum == InitRun /\ [][NextRenum]_vars

\* A record without the byte that holds its line number.
Payload(rec) == [k \in 1..(Len(rec) - 1) |-> rec[k + 1]]

\* C12: for every non-empty stored program, of one line or more,
\* renumbering completes, keeps the statements' order and payload bytes, and
\* numbers the lines within 5..250, the first 5 and each next one a constant
\* integer step above the one before.
C12_RenumEvenlySpaced ==
  [][ last'.cmd = "renum" /\ StoredLines # << >> =>
        /\ last'.done
        /\ Len(StoredLines') = Len(StoredLines)
        /\ \A i \in 1..Len(StoredLines) :
              /\ Payload(StoredLines'[i]) = Payload(StoredLines[i])
              /\ LineNumOf(StoredLines'[i]) \in LOWEST_LINE_NUM..(MAX_LINE_NUM - LOWEST_LINE_NUM)
        /\ LineNumOf(StoredLines'[1]) = LOWEST_LINE_NUM
        /\ \E step \in 1..MAX_LINE_NUM :
              \A i \in 1..(Len(StoredLines) - 1) :
                 LineNumOf(StoredLines'[i + 1]) = LineNumOf(StoredLines'[i]) + step ]_vars

(***************************************************************************)
(* Variables: declaration, assignment and printing.                        *)
(***************************************************************************)
InitSym ==
  \E q \in SymPrograms :
     \E st \in {Stored(q, [i \in ProgIdx |-> 0], 0)} :
        InitWith(st.prog, st.progByte, EepromInit)

NextSym == EnterImmediate \/ RunCmd \/ ExecStep \/ RunExit \/ RunReturn

SpecSym == InitSym /\ [][NextSym]_vars

\* The identifiers the statements of the programs and the immediate
\* statements name.
Identifiers ==
  { Str(<<"x">>), Str(<<"y">>), Str(<<"a">>), Str(<<"b">>), Str(<<"c">>),
    Str(<<"d">>), Str(<<"A">>) }

\* C15: when a run starts the symbol table is empty: no entry is in use,
\* and no identifier, whether an earlier run or an earlier immediate
\* statement created it, is found by the statements of the new run.
C15_RunStartsWithEmptyTable ==
  [][ last'.cmd = "run" =>
        /\ \A i \in SymIdx : m_symTbl'[i].typeId = WIPE_ID_UNDEF
        /\ \A id \in Identifiers : ~wipeSymbolLookup(m_symTbl', id).ok ]_vars

\* A run has started at a prompt where x was in the table.
C15_Witness ==
  /\ last.cmd = "run"
  /\ Str(<<"x">>) \in last.had
  /\ engine = "Executing"

\* The stored bytes: the program buffer below its occupied length.
StoredBytes == [i \in 0..(m_wipeProgByte - 1) |-> m_program[i]]

\* C16: no step of a run, from the run command to the return to the prompt
\* and however the run ends, changes the occupied length of the program
\* buffer or a stored byte; and once a run has stopped on an error or a
\* cancel, the symbol table stays as the stopping statement left it until
\* the next run command.
C16_RunKeepsProgramAndSymbols ==
  [][ /\ last'.cmd \in {"run", "exec", "exit", "prompt"} =>
            /\ m_wipeProgByte' = m_wipeProgByte
            /\ StoredBytes' = StoredBytes
      /\ (last.cmd = "exec" /\ Stopped(last)) \/ engine = "Aborted" =>
            \/ m_symTbl' = m_symTbl
            \/ last'.cmd = "run" ]_vars

\* A run that declared a variable was aborted, and the variable is still
\* in the table when the loop has been left.
C16_Witness ==
  /\ engine = "Aborted"
  /\ last.cmd = "exit" /\ last.aborted
  /\ Visible(m_symTbl) # {}

\* The identifier a stored var, let, label or goto statement at offset at
\* names, and the byte that follows its terminator.
NamedAt(at) ==
  Sub(m_program, at + TKNZD_STMT_OFFS + 1, strlen(m_program, at + TKNZD_STMT_OFFS + 1))

AfterNameAt(at) == at + TKNZD_STMT_OFFS + 1 + BufLen(NamedAt(at)) + 1

\* The entries in use, as a set of [symbol, typeId, symValue].
InUse(tbl) == { tbl[i] : i \in { j \in SymIdx : tbl[j].typeId # WIPE_ID_UNDEF } }

\* The turn of the loop that has just been taken stopped the run on an
\* error: the loop takes no further turn and the run ends aborted.
AbortsRun(step) == step.how = "error" /\ step.err

\* C17: a var statement whose identifier is not in the symbol table adds
\* it with the declared type and the value zero and leaves the other
\* symbols alone; when the identifier is in the table already, or no entry
\* is free, the statement fails, the run aborts, and every symbol keeps its
\* type and value.
C17_VarDeclares ==
  [][ Executed(last', WIPE_VAR) =>
        IF NamedAt(last'.at) \notin Visible(m_symTbl)
           /\ Cardinality(InUse(m_symTbl)) < MAX_NUM_SYMBOLS
          THEN /\ last'.how = "next" /\ ~last'.err
               /\ InUse(m_symTbl')
                    = InUse(m_symTbl)
                      \cup { [symbol   |-> NamedAt(last'.at),
                              typeId   |-> m_program[AfterNameAt(last'.at)],
                              symValue |-> 0] }
          ELSE /\ AbortsRun(last')
               /\ RunOver'
               /\ m_symTbl' = m_symTbl ]_vars

\* A var statement has failed on a name the table holds.
C17_Witness ==
  /\ Executed(last, WIPE_VAR)
  /\ AbortsRun(last)
  /\ NamedAt(last.at) \in Visible(m_symTbl)

\* What the right-hand sides of the let statements of the programs denote:
\* an integer, a truth value (2 < 3 is true), or a variable's value.
LetCases ==
  { [line |-> Str(<<"1", "0", " ", "l", "e", "t", " ", "x", " ", "=", " ", "1", "0", " ", "+", " ", "5">>),
     rhs  |-> [kind |-> "int", val |-> 15]],
    [line |-> Str(<<"5", " ", "l", "e", "t", " ", "y", " ", "=", " ", "1">>),
     rhs  |-> [kind |-> "int", val |-> 1]],
    [line |-> Str(<<"1", "0", " ", "l", "e", "t", " ", "b", " ", "=", " ", "0">>),
     rhs  |-> [kind |-> "int", val |-> 0]],
    [line |-> Str(<<"2", "0", " ", "l", "e", "t", " ", "b", " ", "=", " ", "1">>),
     rhs  |-> [kind |-> "int", val |-> 1]],
    [line |-> Str(<<"3", "0", " ", "l", "e", "t", " ", "b", " ", "=", " ", "2">>),
     rhs  |-> [kind |-> "int", val |-> 2]],
    [line |-> Str(<<"1", "0", " ", "l", "e", "t", " ", "x", " ", "=", " ", "7">>),
     rhs  |-> [kind |-> "int", val |-> 7]],
    [line |-> Str(<<"2", "0", " ", "l", "e", "t", " ", "x", " ", "=", " ", "y">>),
     rhs  |-> [kind |-> "var", name |-> Str(<<"y">>)]],
    [line |-> Str(<<"3", "0", " ", "l", "e", "t", " ", "x", " ", "=", " ", "b">>),
     rhs  |-> [kind |-> "var", name |-> Str(<<"b">>)]],
    [line |-> Str(<<"1", "0", " ", "l", "e", "t", " ", "x", " ", "=", " ", "2", " ", "<", " ", "3">>),
     rhs  |-> [kind |-> "bool", val |-> 1]] }

\* The stored record at offset at.
RecAt(at) == [k \in 1..m_program[at + TKNZD_LEN_OFFS] |-> m_program[at + k - 1]]

\* The entry of a table that holds a name (the name is in the table).
EntryOf(tbl, name) ==
  CHOOSE i \in SymIdx : tbl[i].typeId # WIPE_ID_UNDEF /\ tbl[i].symbol = name

\* The type and value a right-hand side has: [ok, type, value].
RhsValue(rhs, tbl) ==
  CASE rhs.kind = "int"  -> [ok |-> TRUE, type |-> WIPE_ID_INT, value |-> rhs.val]
    [] rhs.kind = "bool" -> [ok |-> TRUE, type |-> WIPE_ID_BOOL, value |-> rhs.val]
    [] rhs.kind = "var"  ->
         IF rhs.name \in Visible(tbl)
           THEN [ok |-> TRUE, type |-> tbl[EntryOf(tbl, rhs.name)].typeId,
                 value |-> tbl[EntryOf(tbl, rhs.name)].symValue]
           ELSE [ok |-> FALSE, type |-> WIPE_ID_UNDEF, value |-> 0]

\* Whether a value of type from can be held by a variable of type to.
Coercible(to, from, value) ==
  \/ to = from
  \/ to = WIPE_ID_BOOL /\ from = WIPE_ID_INT /\ value \in {0, 1}
  \/ to = WIPE_ID_INT /\ from = WIPE_ID_BOOL

\* C18: a let statement fails and aborts the run when its identifier is
\* not in the symbol table, or when its expression has no value or a value
\* its variable's type cannot hold, and then the table is as before; in
\* every other case it succeeds and the variable holds the expression's
\* value.
C18_LetAssigns ==
  [][ Executed(last', WIPE_LET) =>
        \A c \in LetCases :
           RecAt(last'.at) = Statement[c.line].c.bytes =>
             IF /\ NamedAt(last'.at) \in Visible(m_symTbl)
                /\ RhsValue(c.rhs, m_symTbl).ok
                /\ Coercible(m_symTbl[EntryOf(m_symTbl, NamedAt(last'.at))].typeId,
                             RhsValue(c.rhs, m_symTbl).type,
                             RhsValue(c.rhs, m_symTbl).value)
               THEN /\ last'.how = "next" /\ ~last'.err
                    /\ m_symTbl'
                         = [m_symTbl EXCEPT ![EntryOf(m_symTbl, NamedAt(last'.at))].symValue
                                              = RhsValue(c.rhs, m_symTbl).value]
               ELSE /\ AbortsRun(last')
                    /\ RunOver'
                    /\ m_symTbl' = m_symTbl ]_vars

\* The program that declares x, assigns it 10 + 5 and prints it.
SumProgram ==
  << Str(<<"5", " ", "v", "a", "r", " ", "x", " ", ":", " ", "i", "n", "t">>),
     Str(<<"1", "0", " ", "l", "e", "t", " ", "x", " ", "=", " ", "1", "0", " ", "+", " ", "5">>),
     Str(<<"2", "0", " ", "p", "r", "i", "n", "t", " ", "x">>) >>

\* The program buffer holds the lines of q.
Holds(q) == StoredLines = [i \in 1..Len(q) |-> Statement[q[i]].c.bytes]

\* C19: in the program that declares the integer variable x, assigns it
\* the sum of the literals 10 and 5 and prints x, the print statement
\* writes the characters 15 to the console and reports no error.
C19_PrintsFifteen ==
  [][ Holds(SumProgram) /\ Executed(last', WIPE_PRINT) =>
        /\ last'.printed = << Ord("1"), Ord("5") >>
        /\ last'.how = "next" /\ ~last'.err ]_vars

\* The print statement of that program has been executed.
C19_Witness ==
  /\ Holds(SumProgram)
  /\ Executed(last, WIPE_PRINT)
  /\ last.printed = << Ord("1"), Ord("5") >>
  /\ \E v \in InUse(m_symTbl) :
        v.symbol = Str(<<"x">>) /\ v.typeId = WIPE_ID_INT /\ v.symValue = 15

\* The let statements that assign an integer literal, with the literal.
IntoBool == { c \in LetCases : c.rhs.kind = "int" }

\* The let statement at offset at assigns to a boolean variable of the
\* table.
BoolTarget(at) ==
  /\ NamedAt(at) \in Visible(m_symTbl)
  /\ m_symTbl[EntryOf(m_symTbl, NamedAt(at))].typeId = WIPE_ID_BOOL

\* C20: a let that assigns the integer 0 or 1 to a boolean variable
\* succeeds and the variable holds that value; a let that assigns the
\* integer 2 to it is refused by the type check of wipeAssign, the
\* statement fails with an error, and the variable and the rest of the
\* table are as before.
C20_BoolTakesZeroOrOne ==
  [][ Executed(last', WIPE_LET) /\ BoolTarget(last'.at) =>
        \A c \in IntoBool :
           RecAt(last'.at) = Statement[c.line].c.bytes =>
             IF c.rhs.val \in {0, 1}
               THEN /\ wipeAssign(WIPE_ID_BOOL, c.rhs.val, WIPE_ID_INT).ok
                    /\ last'.how = "next" /\ ~last'.err
                    /\ m_symTbl'
                         = [m_symTbl EXCEPT ![EntryOf(m_symTbl, NamedAt(last'.at))].symValue
                                              = c.rhs.val]
               ELSE /\ ~wipeAssign(WIPE_ID_BOOL, c.rhs.val, WIPE_ID_INT).ok
                    /\ AbortsRun(last')
                    /\ m_symTbl' = m_symTbl ]_vars

\* The boolean b held 1 when the integer 2 was assigned to it, and holds 1
\* after the statement has failed.
C20_Witness ==
  /\ Executed(last, WIPE_LET)
  /\ AbortsRun(last)
  /\ RecAt(last.at) = Statement[Str(<<"3", "0", " ", "l", "e", "t", " ", "b", " ", "=", " ", "2">>)].c.bytes
  /\ BoolTarget(last.at)
  /\ m_symTbl[EntryOf(m_symTbl, NamedAt(last.at))].symValue = 1

(***************************************************************************)
(* Expressions, evaluated by immediate let statements.                     *)
(***************************************************************************)
\* The table after `var id : type` and an assignment of value to id.
Declare(tbl, id, type, value) ==
  With([d \in {wipeSymbolInsert(tbl, id, type)} |->
      [d.tbl EXCEPT ![d.idx].symValue = value]])

\* The integers a and b hold.
IntValues == {0 - 7, 0 - 2, 0, 3, 7}

\* The tables the statements are evaluated in: a and b both boolean or
\* both integer, and r, boolean or integer, to take the result.
ExprTables ==
  { Declare(Declare(Declare(wipeSymbolsClear, Str(<<"a">>), t.type, t.a),
                    Str(<<"b">>), t.type, t.b),
            Str(<<"r">>), t.r, 0) :
      t \in [type : {WIPE_ID_BOOL}, a : {0, 1}, b : {0, 1},
              r : {WIPE_ID_BOOL, WIPE_ID_INT}]
         \cup [type : {WIPE_ID_INT}, a : IntValues, b : IntValues,
                r : {WIPE_ID_BOOL, WIPE_ID_INT}] }

InitExpr ==
  /\ m_program = [i \in ProgIdx |-> 0]
  /\ m_wipeProgByte = 0
  /\ m_wipeLineStart = 0
  /\ m_wipeRunByte = 0
  /\ m_symTbl \in ExprTables
  /\ m_breakProg = FALSE
  /\ eeprom = EepromInit
  /\ m_wipeDirSpace = wipeDirSpaceCheck(EepromInit).dirSpace
  /\ m_wipeSaveAddr = wipeDirSpaceCheck(EepromInit).saveAddr
  /\ engine = "Idle"
  /\ sink = << >>
  /\ last = None
  /\ nCmds = 0

NextExpr == EnterExpr

SpecExpr == InitExpr /\ [][NextExpr]_vars

\* The value and the type a table holds for a name.
ValueOf(tbl, name) == tbl[EntryOf(tbl, name)].symValue

TypeOf(tbl, name) == tbl[EntryOf(tbl, name)].typeId

\* An immediate statement with the text l has been executed, neither
\* cancelled nor cut short.
Ran(step, l) ==
  /\ step.cmd = "immediate"
  /\ step.line = l
  /\ step.how \notin {"cancel", "break"}

\* a and b are booleans, and so is r.
AllBool(tbl) ==
  /\ TypeOf(tbl, Str(<<"a">>)) = WIPE_ID_BOOL
  /\ TypeOf(tbl, Str(<<"r">>)) = WIPE_ID_BOOL

\* The truth value a boolean byte stands for.
Truth(v) == LowByte(v) # 0

\* C21: for booleans a and b, with a boolean to take the result,
\* a || b evaluates to the OR of a and b, a && b to their AND, and !a to
\* the complement of a.
C21_BoolOperators ==
  [][ AllBool(m_symTbl) =>
        /\ Ran(last', Str(<<"l", "e", "t", " ", "r", " ", "=", " ", "a", " ", "|", "|", " ", "b">>)) =>
              /\ last'.how = "next"
              /\ Truth(ValueOf(m_symTbl', Str(<<"r">>)))
                   = (Truth(ValueOf(m_symTbl, Str(<<"a">>)))
                      \/ Truth(ValueOf(m_symTbl, Str(<<"b">>))))
        /\ Ran(last', Str(<<"l", "e", "t", " ", "r", " ", "=", " ", "a", " ", "&", "&", " ", "b">>)) =>
              /\ last'.how = "next"
              /\ Truth(ValueOf(m_symTbl', Str(<<"r">>)))
                   = (Truth(ValueOf(m_symTbl, Str(<<"a">>)))
                      /\ Truth(ValueOf(m_symTbl, Str(<<"b">>))))
        /\ Ran(last', Str(<<"l", "e", "t", " ", "r", " ", "=", " ", "!", "a">>)) =>
              /\ last'.how = "next"
              /\ Truth(ValueOf(m_symTbl', Str(<<"r">>)))
                   = ~Truth(ValueOf(m_symTbl, Str(<<"a">>))) ]_vars

\* a and b are integers, and so is r.
AllInt(tbl) ==
  /\ TypeOf(tbl, Str(<<"a">>)) = WIPE_ID_INT
  /\ TypeOf(tbl, Str(<<"r">>)) = WIPE_ID_INT

Abs(n) == IF n < 0 THEN 0 - n ELSE n

\* q and m are the quotient and the remainder of a by b when the division
\* truncates toward zero: the remainder is smaller than the divisor in
\* magnitude and never has the sign opposite to the dividend's.
Truncates(a, b, q, m) ==
  /\ a = q * b + m
  /\ Abs(m) < Abs(b)
  /\ m * a >= 0

\* C22: for integers a and b with b other than 0, a / b evaluates to the
\* quotient and a % b to the remainder of the division that truncates
\* toward zero.
C22_IntDivisionTruncates ==
  [][ AllInt(m_symTbl) /\ ValueOf(m_symTbl, Str(<<"b">>)) # 0 =>
        /\ Ran(last', Str(<<"l", "e", "t", " ", "r", " ", "=", " ", "a", " ", "/", " ", "b">>)) =>
              /\ last'.how = "next" /\ ~last'.err
              /\ \E m \in (0 - 7)..7 :
                    Truncates(ValueOf(m_symTbl, Str(<<"a">>)),
                              ValueOf(m_symTbl, Str(<<"b">>)),
                              ValueOf(m_symTbl', Str(<<"r">>)), m)
        /\ Ran(last', Str(<<"l", "e", "t", " ", "r", " ", "=", " ", "a", " ", "%", " ", "b">>)) =>
              /\ last'.how = "next" /\ ~last'.err
              /\ \E q \in (0 - 7)..7 :
                    Truncates(ValueOf(m_symTbl, Str(<<"a">>)),
                              ValueOf(m_symTbl, Str(<<"b">>)),
                              q, ValueOf(m_symTbl', Str(<<"r">>))) ]_vars

\* -7 has been divided by 3, and r holds -2.
C22_Witness ==
  /\ Ran(last, Str(<<"l", "e", "t", " ", "r", " ", "=", " ", "a", " ", "/", " ", "b">>))
  /\ AllInt(m_symTbl)
  /\ ValueOf(m_symTbl, Str(<<"a">>)) = 0 - 7
  /\ ValueOf(m_symTbl, Str(<<"b">>)) = 3
  /\ ValueOf(m_symTbl, Str(<<"r">>)) = 0 - 2

\* The statements whose operator is a boolean one, and those whose operator
\* is an arithmetic one.
BoolOpLines ==
  { Str(<<"l", "e", "t", " ", "r", " ", "=", " ", "a", " ", "|", "|", " ", "b">>),
    Str(<<"l", "e", "t", " ", "r", " ", "=", " ", "a", " ", "&", "&", " ", "b">>),
    Str(<<"l", "e", "t", " ", "r", " ", "=", " ", "!", "a">>) }

ArithOpLines == ExprLines \ BoolOpLines

\* The operator of the statement is not one the type of a and b supports.
Unsupported(l, tbl) ==
  \/ l \in BoolOpLines /\ TypeOf(tbl, Str(<<"a">>)) = WIPE_ID_INT
  \/ l \in ArithOpLines /\ TypeOf(tbl, Str(<<"a">>)) = WIPE_ID_BOOL

\* C23: a statement whose expression applies an operator to operands of a
\* type that does not support it fails: an error ends the statement and
\* the symbol table, the variable that was to take the result included, is
\* as before.
C23_UnsupportedOperatorFails ==
  [][ \A l \in ExprLines :
        Ran(last', l) /\ Unsupported(l, m_symTbl) =>
          /\ last'.how = "error"
          /\ m_symTbl' = m_symTbl ]_vars

(***************************************************************************)
(* Function-call statements and their argument lists.                      *)
(***************************************************************************)
NextCall == EnterCall

SpecCall == Init /\ [][NextCall]_vars

\* The number of parameters of each function.
ParmCount ==
  [ Bkgrd |-> 4, Group |-> 4, Line |-> 6, Reset |-> 1, State |-> 2, Shift |-> 2,
    Swap |-> 7, Rain |-> 2, Cycle |-> 1, Speed |-> 2, Twinkle |-> 5, Pause |-> 3 ]

\* C24: a function-call statement whose argument list does not hold as
\* many arguments as the function has parameters is refused when it is
\* compiled: the stored lines stay as they are and no command-sink call
\* is made.
C24_WrongArgumentCountRejected ==
  [][ \A c \in CallCases :
        /\ last'.cmd # "dropped"
        /\ last'.line = c.line
        /\ c.given # ParmCount[c.name]
        => /\ last'.cmd = "nocompile"
           /\ StoredLines' = StoredLines
           /\ sink' = sink ]_vars

(***************************************************************************)
(* Compilation and the symbol table.                                       *)
(***************************************************************************)
NextLazy == EnterLazy \/ RunCmd \/ ExecStep \/ RunExit \/ RunReturn

SpecLazy == Init /\ [][NextLazy]_vars

\* The let that names the undeclared y, as it is typed.
LetUndeclared == Str(<<"1", "0", " ", "l", "e", "t", " ", "x", " ", "=", " ", "y", " ", "+", " ", "1">>)

\* C25: entering a numbered line leaves the symbol table as it is, whatever
\* the table holds; the line `10 let x = y + 1` is stored although neither
\* x nor y need be declared; and only when that line is executed with y
\* not in the table does the statement fail and the run abort.
C25_CompileLeavesSymbolsAlone ==
  [][ /\ last'.cmd \in {"line", "nocompile", "badnum"} => m_symTbl' = m_symTbl
      /\ last'.cmd \in {"line", "nocompile"} /\ last'.line = LetUndeclared =>
            /\ last'.cmd = "line" /\ last'.saved
            /\ \E i \in 1..Len(StoredLines') :
                  StoredLines'[i] = Statement[LetUndeclared].c.bytes
      /\ /\ Executed(last', WIPE_LET)
         /\ RecAt(last'.at) = Statement[LetUndeclared].c.bytes
         /\ Str(<<"y">>) \notin Visible(m_symTbl)
         => /\ AbortsRun(last')
            /\ m_symTbl' = m_symTbl ]_vars

\* The stored line has been executed after the declaration of x, and has
\* failed on y.
C25_Witness ==
  /\ Executed(last, WIPE_LET)
  /\ RecAt(last.at) = Statement[LetUndeclared].c.bytes
  /\ AbortsRun(last)
  /\ Visible(m_symTbl) = { Str(<<"x">>) }

(***************************************************************************)
(* Printing variables.                                                     *)
(***************************************************************************)
InitPrint ==
  \E q \in PrintPrograms :
     \E st \in {Stored(q, [i \in ProgIdx |-> 0], 0)} :
        InitWith(st.prog, st.progByte, EepromInit)

SpecPrint == InitPrint /\ [][NextRun]_vars

\* The stored print statement at offset at prints a variable, and its name.
PrintsVarAt(at) == m_program[at + TKNZD_STMT_OFFS + 1] = WIPE_PRT_VAR

PrintedAt(at) ==
  Sub(m_program, at + TKNZD_STMT_OFFS + 2, strlen(m_program, at + TKNZD_STMT_OFFS + 2))

\* What the console shows for the value of a table entry.
Shown(v) ==
  IF v.typeId = WIPE_ID_FLOAT THEN SerialPrintFloat(v.symValue)
  ELSE IF v.typeId = WIPE_ID_BOOL THEN SerialPrint(LowByte(v.symValue))
  ELSE SerialPrint(v.symValue)

\* C26: a print statement that names a declared integer, float or boolean
\* variable writes the variable's value, reports no error and the run goes
\* on with the next line; one that names an undeclared identifier fails
\* and the run aborts.
C26_PrintEmitsValue ==
  [][ Executed(last', WIPE_PRINT) /\ PrintsVarAt(last'.at) =>
        IF PrintedAt(last'.at) \in Visible(m_symTbl)
          THEN /\ last'.printed = Shown(m_symTbl[EntryOf(m_symTbl, PrintedAt(last'.at))])
               /\ last'.how = "next" /\ ~last'.err
          ELSE AbortsRun(last') ]_vars

\* The same for the variables that are not boolean.
C26_PrintEmitsNumber ==
  [][ Executed(last', WIPE_PRINT) /\ PrintsVarAt(last'.at) =>
        IF PrintedAt(last'.at) \in Visible(m_symTbl)
          THEN \/ m_symTbl[EntryOf(m_symTbl, PrintedAt(last'.at))].typeId = WIPE_ID_BOOL
               \/ /\ last'.printed = Shown(m_symTbl[EntryOf(m_symTbl, PrintedAt(last'.at))])
                  /\ last'.how = "next" /\ ~last'.err
          ELSE AbortsRun(last') ]_vars

(***************************************************************************)
(* Line ranges.                                                            *)
(***************************************************************************)
SpecRange == InitRun /\ [][DelRange]_vars

\* The forms of a range and the bounds each is to denote, the dash closed
\* up to the numbers: del 10, del 10-20, del 10-, del -20.
ClosedForms ==
  { [line |-> Str(<<"d", "e", "l", " ", "1", "0">>),
     lower |-> 10, upper |-> 10],
    [line |-> Str(<<"d", "e", "l", " ", "1", "0", "-", "2", "0">>),
     lower |-> 10, upper |-> 20],
    [line |-> Str(<<"d", "e", "l", " ", "1", "0", "-">>),
     lower |-> 10, upper |-> 255],
    [line |-> Str(<<"d", "e", "l", " ", "-", "2", "0">>),
     lower |-> 1, upper |-> 20] }

\* The same with the dash set off by blanks, as the header of the sketch
\* writes the forms: del 10, del 10 - 20, del 10 -, del - 20.
SpacedForms ==
  { [line |-> Str(<<"d", "e", "l", " ", "1", "0">>),
     lower |-> 10, upper |-> 10],
    [line |-> Str(<<"d", "e", "l", " ", "1", "0", " ", "-", " ", "2", "0">>),
     lower |-> 10, upper |-> 20],
    [line |-> Str(<<"d", "e", "l", " ", "1", "0", " ", "-">>),
     lower |-> 10, upper |-> 255],
    [line |-> Str(<<"d", "e", "l", " ", "-", " ", "2", "0">>),
     lower |-> 1, upper |-> 20] }

\* A del command of the form f was accepted with the bounds of f.
Denotes(step, f) ==
  step.line = f.line => step.ok /\ step.lower = f.lower /\ step.upper = f.upper

\* C27: a del command whose range is written <n>, <n>-<m>, <n>- or -<m> is
\* accepted and works on the lines [n,n], [n,m], [n,255] and [1,m]; the
\* command text del 10-20 gives lower = 10 and upper = 20.
C27_LineRangeForms ==
  [][ last'.cmd = "del" => \A f \in ClosedForms : Denotes(last', f) ]_vars

\* With blanks around the dash each form denotes those lines.
C27_SpacedRangeForms ==
  [][ last'.cmd = "del" => \A f \in SpacedForms : Denotes(last', f) ]_vars

(***************************************************************************)
(* The sample program RainbowTest.  Its 177 bytes are more than the        *)
(* program buffer of the other specifications holds, so the run is taken   *)
(* on a buffer of the sample's own length, from the moment the run command *)
(* has been accepted.                                                      *)
(***************************************************************************)
\* The records of the lines, one after the other: entered in ascending
\* order, each line is appended to the ones before it.
RECURSIVE Records(_)
Records(q) == IF q = << >> THEN << >> ELSE Statement[Head(q)].c.bytes \o Records(Tail(q))

RainbowBytes == Records(RainbowTest)

RainbowSize == Len(RainbowBytes)

RainbowProgram == [i \in 0..(RainbowSize - 1) |-> RainbowBytes[i + 1]]

RainbowMem(g) ==
  [i \in 0..(RainbowSize + MAX_SERIAL_BUF_LEN) |->
     IF i < RainbowSize THEN RainbowProgram[i] ELSE g]

\* Turns of the loop taken in one behaviour.
MaxTurns == 130

InitRainbow ==
  /\ m_program = RainbowProgram
  /\ m_wipeProgByte = RainbowSize
  /\ m_wipeLineStart = RainbowSize
  /\ m_wipeRunByte = 0
  /\ m_symTbl = wipeSymbolsClear
  /\ m_breakProg = FALSE
  /\ eeprom = EepromInit
  /\ m_wipeDirSpace = wipeDirSpaceCheck(EepromInit).dirSpace
  /\ m_wipeSaveAddr = wipeDirSpaceCheck(EepromInit).saveAddr
  /\ engine = "Executing"
  /\ sink = << >>
  /\ last = [cmd |-> "run", line |-> RunLine, had |-> {}]
  /\ nCmds = 0

\* One turn of the loop of wipeRunProgram on the sample.
ExecRainbow ==
  /\ engine = "Executing"
  /\ m_wipeRunByte < m_wipeProgByte
  /\ nCmds < MaxTurns
  /\ \E inChar \in {NUL, cCancel}, brk \in BOOLEAN, g \in Garbage :
       \E ex \in {wipeExecuteStatementIn(RainbowSize, RainbowMem(g), m_wipeProgByte,
                                          m_wipeRunByte, m_wipeLineStart, m_symTbl,
                                          m_wipeRunByte, m_breakProg, inChar, brk, g)} :
           /\ m_wipeRunByte' = ex.rc
           /\ m_wipeLineStart' = ex.lineStart
           /\ m_symTbl' = ex.tbl
           /\ m_breakProg' = ex.breakProg
           /\ sink' = sink \o ex.calls
           /\ last' = [cmd |-> "exec", at |-> m_wipeRunByte,
                       stmt |-> m_program[m_wipeRunByte + TKNZD_STMT_OFFS],
                       inChar |-> inChar, how |-> ex.how, err |-> ex.err,
                       calls |-> ex.calls, printed |-> ex.printed]
           /\ nCmds' = nCmds + 1
           /\ UNCHANGED << m_program, m_wipeProgByte, eeprom, m_wipeDirSpace,
                           m_wipeSaveAddr, engine >>

NextRainbow == ExecRainbow \/ RunExit \/ RunReturn

SpecRainbow == InitRainbow /\ [][NextRainbow]_vars

\* The functions called, in the order of the calls.
Ops(calls) == [i \in 1..Len(calls) |-> calls[i].op]

\* The calls of one pass of the loop, and of n passes.
OnePass == << "fxSpeed", "rainbow", "pause", "rainbowCycle", "pause" >>

RECURSIVE Passes(_)
Passes(n) == IF n = 0 THEN << >> ELSE OnePass \o Passes(n - 1)

EndText == [i \in 1..11 |-> Str(<<"*", "*", "*", " ", "E", "n", "d", " ", "*", "*", "*">>)[i - 1]]

\* The run ends with the calls of n passes, then Reset(255), then the
\* text *** End ***.
EndsAfter(n) ==
  /\ Ops(sink) = Passes(n) \o << "waspReset" >>
  /\ sink[Len(sink)].args = << 255 >>
  /\ last.cmd = "exec" /\ last.printed = EndText

\* C28: a run of RainbowTest that is not cancelled makes the calls of ten
\* passes of its loop, each one Speed, one Rain, a Pause, one Cycle and a
\* Pause, and ends after Reset(255) and the text *** End ***.
C28_RainbowTenPasses ==
  [][ engine = "Executing" /\ engine' = "Done" => EndsAfter(10) ]_vars

\* The run makes the calls of five passes: x goes from 10 to 0 in steps
\* of 2.
C28_RainbowFivePasses ==
  [][ engine = "Executing" /\ engine' = "Done" => EndsAfter(5) ]_vars

(***************************************************************************)
(* The capacity of the program buffer.                                     *)
(***************************************************************************)
SpecFill == Init /\ [][EnterFill]_vars

\* The bytes the compiled record of a line takes, and whether the record
\* written at the occupied length ends within the buffer.
RecordLen(l) == Len(Statement[l].c.bytes)

Fits(l, progByte) == progByte + RecordLen(l) <= MAX_PROG_SIZE

\* C29: the occupied length never exceeds MAX_PROG_SIZE, and a numbered
\* line whose record does not fit between the occupied length and the end
\* of the buffer is refused: it is neither compiled into the buffer nor
\* stored, and the buffer stays as it is.
C29_WithinCapacity ==
  /\ [](m_wipeProgByte <= MAX_PROG_SIZE)
  /\ [][ /\ last'.cmd \in {"line", "nocompile", "dropped"}
         /\ Statement[last'.line].numbered /\ Statement[last'.line].c.ok
         /\ ~Fits(last'.line, m_wipeProgByte)
         => /\ last'.cmd = "dropped"
            /\ m_program' = m_program /\ m_wipeProgByte' = m_wipeProgByte ]_vars

\* The occupied length alone.
C29_LengthWithinCapacity == m_wipeProgByte <= MAX_PROG_SIZE

(***************************************************************************)
(* A cancel character during a pause.                                      *)
(***************************************************************************)
\* The turn of the loop executed a Pause statement.
Paused(step) ==
  /\ Executed(step, WIPE_FUNC)
  /\ Ops(step.calls) = << "pause" >>

\* C30: when the cancel character arrives while a Pause statement waits,
\* pause sets m_breakProg and returns at once, the statement ends without
\* an error, and no statement after it is executed: the next turn of the
\* loop makes no sink call, changes no symbol and leaves the loop, and the
\* run ends.
C30_CancelledPauseEndsRun ==
  [][ /\ (last'.cmd = "exec" /\ ~m_breakProg /\ m_breakProg') =>
           Paused(last') /\ last'.how = "next" /\ ~last'.err
      /\ (engine = "Executing" /\ m_breakProg) =>
           /\ last'.cmd = "exec" =>
                 /\ last'.how = "break" /\ last'.calls = << >>
                 /\ RunOver'
           /\ sink' = sink
           /\ m_symTbl' = m_symTbl ]_vars

\* A pause was cancelled with a statement after it, and the turn that
\* followed left the loop without executing that statement.
C30_Witness ==
  /\ last.cmd = "exec" /\ last.how = "break"
  /\ m_breakProg
  /\ last.at > 0 /\ last.at < m_wipeProgByte
  /\ Ops(sink) = << "pause" >>
  /\ RunOver

(***************************************************************************)
(* Labels.                                                                 *)
(***************************************************************************)
\* The state with one of the programs of a set stored.
InitFrom(programs) ==
  \E q \in programs :
     \E st \in {Stored(q, [i \in ProgIdx |-> 0], 0)} :
        InitWith(st.prog, st.progByte, EepromInit)

InitLabel == InitFrom(LabelPrograms)

SpecLabel == InitLabel /\ [][NextRun]_vars

\* The table holds name as a label of the line at offset at.
LabelOf(tbl, name, at) ==
  /\ name \in Visible(tbl)
  /\ tbl[EntryOf(tbl, name)].typeId = WIPE_ID_LABEL
  /\ tbl[EntryOf(tbl, name)].symValue = at

\* C31: after a label statement has been executed the symbol table holds
\* its identifier as a label whose value is the offset of that label line,
\* and executing the line when the table holds that entry already leaves
\* the table as it is.
C31_LabelRecordsOffset ==
  [][ Executed(last', WIPE_LABEL) /\ ~AbortsRun(last') =>
        /\ LabelOf(m_symTbl', NamedAt(last'.at), last'.at)
        /\ LabelOf(m_symTbl, NamedAt(last'.at), last'.at) => m_symTbl' = m_symTbl ]_vars

\* The same for a label whose name the table does not hold for another
\* line or as a variable.
C31_FreshLabelRecordsOffset ==
  [][ /\ Executed(last', WIPE_LABEL) /\ ~AbortsRun(last')
      /\ \/ NamedAt(last'.at) \notin Visible(m_symTbl)
         \/ LabelOf(m_symTbl, NamedAt(last'.at), last'.at)
      => /\ LabelOf(m_symTbl', NamedAt(last'.at), last'.at)
         /\ LabelOf(m_symTbl, NamedAt(last'.at), last'.at) => m_symTbl' = m_symTbl ]_vars

(***************************************************************************)
(* The range of argument values.                                           *)
(***************************************************************************)
\* The values the arguments of the function statement at the cursor
\* evaluate to, before they are narrowed to a byte ([ok, wide, ...]).
ArgsAtCursor ==
  LET m == Mem(m_program, 0)
      a == m_wipeRunByte
  IN  EvalParms(m, a + TKNZD_STMT_OFFS + 4, m[a + TKNZD_STMT_OFFS + 2],
                m_symTbl, 0, << >>, << >>, FALSE)

OutOfRange(v) == v < 0 - 128 \/ v > 255

\* C32: a function-call statement one of whose arguments evaluates to a
\* value outside -128..255 is reported as an error and makes no
\* command-sink call.
C32_OutOfRangeMakesNoCall ==
  [][ /\ Executed(last', WIPE_FUNC)
      /\ ArgsAtCursor.ok
      /\ \E k \in 1..Len(ArgsAtCursor.wide) : OutOfRange(ArgsAtCursor.wide[k])
      => /\ last'.err
         /\ last'.calls = << >>
         /\ sink' = sink ]_vars

\* Such a statement is reported as an error.
C32_OutOfRangeReported ==
  [][ /\ Executed(last', WIPE_FUNC)
      /\ ArgsAtCursor.ok
      /\ \E k \in 1..Len(ArgsAtCursor.wide) : OutOfRange(ArgsAtCursor.wide[k])
      => last'.err ]_vars

(***************************************************************************)
(* Label resolution.                                                       *)
(***************************************************************************)
InitGoto == InitFrom(GotoPrograms)

SpecGoto == InitGoto /\ [][NextRun]_vars

\* The identifier of the goto at the cursor.
GotoTarget == NamedAt(m_wipeRunByte)

\* C33: a goto whose identifier is the label of a stored line, before or
\* after the goto and executed or not, succeeds and sets the cursor to a
\* line that is that label, as a table of all the labels of the program
\* would have it.
C33_GotoFindsAnyStoredLabel ==
  [][ Executed(last', WIPE_GOTO) /\ LabelLines(GotoTarget) # {} =>
        /\ last'.how = "jump" /\ ~last'.err
        /\ m_wipeRunByte' \in LabelLines(GotoTarget) ]_vars

\* The same for a label on the line of the goto or after it, or one the
\* symbol table holds already.
C33_GotoFindsLabelAheadOrSeen ==
  [][ /\ Executed(last', WIPE_GOTO)
      /\ \/ \E at \in LabelLines(GotoTarget) : at >= m_wipeRunByte
         \/ \E at \in LabelLines(GotoTarget) : LabelOf(m_symTbl, GotoTarget, at)
      => /\ last'.how = "jump" /\ ~last'.err
         /\ m_wipeRunByte' \in LabelLines(GotoTarget) ]_vars

(***************************************************************************)
(* Immediate statements.                                                   *)
(***************************************************************************)
SpecDirect == Init /\ [][EnterDirect]_vars

\* C34: a statement entered without a line number is compiled with line
\* number 0 and executed but not stored: the occupied length, every
\* occupied byte and the stored lines are as before; and no stored line
\* has the line number 0.
C34_ImmediateNotStored ==
  /\ [][ last'.cmd = "immediate" =>
           /\ last'.rec[1] = 0
           /\ m_wipeProgByte' = m_wipeProgByte
           /\ StoredLines' = StoredLines
           /\ \A i \in ProgIdx : i < m_wipeProgByte => m_program'[i] = m_program[i] ]_vars
  /\ [](\A i \in 1..Len(StoredLines) : LineNumOf(StoredLines[i]) # 0)

\* An immediate statement has been executed with two lines stored.
C34_Witness ==
  /\ last.cmd = "immediate" /\ last.how = "next"
  /\ Len(StoredLines) = 2
  /\ Visible(m_symTbl) # {}

(***************************************************************************)
(* The execution cursor.                                                   *)
(***************************************************************************)
InitCursor == InitFrom(CursorPrograms)

SpecCursor == InitCursor /\ [][NextRun]_vars

\* The offsets at which the stored lines start.
RecordStarts == { LineOffsets[i] : i \in 1..Len(LineOffsets) }

\* A turn of the loop that executed the statement at its offset.
ExecutedAt(step) == step.cmd = "exec" /\ step.how \notin {"cancel", "break"}

\* C35: every offset at which a statement is executed during a run is the
\* start of a stored line.
C35_CursorOnRecordStart ==
  [][ ExecutedAt(last') => last'.at \in RecordStarts ]_vars

\* A turn at the start of a stored line is followed by a turn at the
\* start of one, unless it was a goto whose identifier the table holds as
\* something other than a label.
C35_CursorOnRecordStartAfterLabels ==
  [][ /\ ExecutedAt(last')
      /\ last.cmd = "exec" => last.at \in RecordStarts
      /\ ~(/\ Executed(last, WIPE_GOTO)
           /\ NamedAt(last.at) \in Visible(m_symTbl)
           /\ m_symTbl[EntryOf(m_symTbl, NamedAt(last.at))].typeId # WIPE_ID_LABEL)
      => last'.at \in RecordStarts ]_vars

(***************************************************************************)
(* Renumbering of programs of up to 255 lines.                             *)
(***************************************************************************)
\* The line numbers the second loop of wipeRenumLines writes into n
\* lines: newLineNum into the first, (uint8) (newLineNum + count) into the
\* next, and so on.
\* (The lines are taken half by half: the first of the second half takes
\* the number after the last of the first half.)
RECURSIVE RenumNumbers(_, _, _)
RenumNumbers(n, newLineNum, count) ==
  IF n = 0 THEN << >>
  ELSE IF n = 1 THEN <<newLineNum>>
  ELSE With([h \in {n \div 2} |->
       With([first \in {RenumNumbers(h, newLineNum, count)} |->
            first \o RenumNumbers(n - h, (first[h] + count) % 256, count)])])

\* wipeRenumLines on a program of n lines, as far as the line numbers go:
\* [done, nums].  z is what the division does when count - 1 is zero.
wipeRenumNumbers(n, z) ==
  With([count \in {n % 256} |->
      IF count - 1 = 0 /\ z.traps THEN [done |-> FALSE, nums |-> << >>]
      ELSE
  With([step \in {IF count - 1 = 0 THEN z.q
                  ELSE RenumStep(MAX_LINE_NUM - 2 * LOWEST_LINE_NUM, count - 1)} |->
      [done |-> TRUE, nums |-> RenumNumbers(n, LOWEST_LINE_NUM, step)]])])

\* A stored program of 1 to 255 lines: distinct line numbers allow no more.
InitNumbers ==
  \E n \in 1..MAX_LINE_NUM :
     /\ m_program = [i \in ProgIdx |-> 0]
     /\ m_wipeProgByte = 0
     /\ m_wipeLineStart = 0
     /\ m_wipeRunByte = 0
     /\ m_symTbl = wipeSymbolsClear
     /\ m_breakProg = FALSE
     /\ eeprom = EepromInit
     /\ m_wipeDirSpace = wipeDirSpaceCheck(EepromInit).dirSpace
     /\ m_wipeSaveAddr = wipeDirSpaceCheck(EepromInit).saveAddr
     /\ engine = "Idle"
     /\ sink = << >>
     /\ last = [cmd |-> "lines", count |-> n]
     /\ nCmds = 0

\* renum on the program of last.count lines.
RenumNumbered ==
  /\ AtPrompt
  /\ last.cmd = "lines"
  /\ \E z \in DivByZero :
        \E rn \in {wipeRenumNumbers(last.count, z)} :
           /\ engine' = IF rn.done THEN "Idle" ELSE "Halted"
           /\ last' = [cmd |-> "numbered", done |-> rn.done, n0 |-> last.count,
                       nums |-> rn.nums]
  /\ m_wipeLineStart' = m_wipeProgByte
  /\ m_breakProg' = FALSE
  /\ nCmds' = nCmds + 1
  /\ UNCHANGED << m_program, m_wipeProgByte, m_wipeRunByte, m_symTbl, eeprom,
                  m_wipeDirSpace, m_wipeSaveAddr, sink >>

SpecNumbers == InitNumbers /\ [][RenumNumbered]_vars

\* The numbers of a sequence rise strictly.
Rising(nums) == \A i, j \in 1..Len(nums) : i < j => nums[i] < nums[j]

\* C36: for every stored program of up to 255 lines, after renumbering the
\* lines are in strictly ascending line-number order and no two lines share
\* a number.
C36_RenumKeepsAscending ==
  last.cmd = "numbered" /\ last.done =>
     /\ Len(last.nums) = last.n0
     /\ Rising(last.nums)

\* The same for the programs of up to 246 lines.
C36_RenumKeepsAscendingTo246 ==
  last.cmd = "numbered" /\ last.done /\ last.n0 <= 246 =>
     /\ Len(last.nums) = last.n0
     /\ Rising(last.nums)

\* The line numbers wipeRenumLines leaves in the Program Buffer are those
\* of wipeRenumNumbers.
C36_NumbersAsInBuffer ==
  [][ last'.cmd = "renum" /\ last'.done /\ StoredLines # << >> =>
        \E z \in DivByZero :
           /\ wipeRenumNumbers(Len(StoredLines), z).done
           /\ wipeRenumNumbers(Len(StoredLines), z).nums
                = [i \in 1..Len(StoredLines') |-> LineNumOf(StoredLines'[i])] ]_vars

\* The stored lines stay ascending under renum in the programs the model's
\* buffer holds, of two lines or more.
C36_BufferStaysAscending ==
  [][ last'.cmd = "renum" /\ last'.done /\ Len(StoredLines) >= 2 =>
        Ascending(StoredLines') ]_vars

(***************************************************************************)
(* The Program Buffer indices the line editor touches.                     *)
(***************************************************************************)
Max(a, b) == IF a >= b THEN a ELSE b

\* The highest index the copy loop of wipeDeleteLine loads from and stores
\* to: it moves numBytesToMove bytes from src = &m_program[lineStart] +
\* m_program[lineStart + TKNZD_LEN_OFFS] to dst = &m_program[lineStart].
\* -1 when it moves none.
DeleteLineTop(prog, progByte, at, lineLen, g) ==
  With([numBytesToMove \in {progByte - lineLen + 1} |->
  With([step \in {Rd(prog, at + TKNZD_LEN_OFFS, g)} |->
      IF numBytesToMove > 0
        THEN Max(at + step + numBytesToMove - 1, at + numBytesToMove - 1)
        ELSE -1])])

\* The highest index the calls of wipeDeleteLine in the loop of
\* wipeDelLines touch.
RECURSIVE DelLoopTop(_, _, _, _, _, _)
DelLoopTop(prog, ls, progByte, at, upper, g) ==
  IF at < progByte /\ Rd(prog, at + TKNZD_LINE_OFFS, g) <= upper
       /\ Rd(prog, at + TKNZD_LEN_OFFS, g) > 0
    THEN With([d \in {wipeDeleteLine(prog, ls, progByte, at,
                                     Rd(prog, at + TKNZD_LEN_OFFS, g), g)} |->
           Max(DeleteLineTop(prog, progByte, at, Rd(prog, at + TKNZD_LEN_OFFS, g), g),
               DelLoopTop(d.prog, d.lineStart, d.progByte, at, upper, g))])
    ELSE -1

wipeDelLinesTop(prog, ls, progByte, lower, upper, g) ==
  DelLoopTop(prog, ls, progByte, wipeSeekLineStart(prog, progByte, lower, g).pos,
             upper, g)

\* The highest index wipeSaveLine touches when the edit line at ls replaces
\* a stored line: the deletion of the stored line, then the insertion
\* loop, which loads m_program[m_wipeLineStart + i] for each byte i of the
\* edit line.  -1 when it replaces none.
wipeSaveLineTop(prog, ls, progByte, g) ==
  With([insertLineNum \in {prog[ls + TKNZD_LINE_OFFS]} |->
  With([insertLineLen \in {prog[ls + TKNZD_LEN_OFFS]} |->
  With([seek \in {wipeSeekLineStart(prog, progByte, insertLineNum, g)} |->
      IF seek.pos # ls /\ seek.pos < MAX_PROG_SIZE /\ seek.lineExists
        THEN With([lineLen \in {prog[seek.pos + TKNZD_LEN_OFFS]} |->
             With([del \in {wipeDeleteLine(prog, ls, progByte, seek.pos, lineLen, g)} |->
                 Max(DeleteLineTop(prog, progByte, seek.pos, lineLen, g),
                     del.lineStart + insertLineLen - 1)])])
        ELSE -1])])])

\* The offset of the first line a del command deletes, or of the line the
\* entered line replaces.
FirstDeleted(step) ==
  IF step.cmd = "del"
    THEN wipeSeekLineStart(m_program, m_wipeProgByte, step.lower, 0).pos
    ELSE wipeSeekLineStart(m_program, m_wipeProgByte, step.num, 0).pos

\* m_wipeProgByte when the deletion starts: the occupied length, and in a
\* replacement the length of the edit line compiled behind it as well.
ProgByteAtDeletion(step) ==
  IF step.cmd = "del" THEN m_wipeProgByte
  ELSE m_wipeProgByte + Statement[step.line].c.end

\* The highest Program Buffer index the step touches while it deletes or
\* replaces stored lines.
EditTop(step, g) ==
  IF step.cmd = "del" /\ step.ok
    THEN wipeDelLinesTop(m_program, m_wipeProgByte, m_wipeProgByte,
                         step.lower, step.upper, g)
  ELSE IF step.cmd = "line" /\ step.existed
    THEN wipeSaveLineTop(WrSeq(m_program, m_wipeProgByte, step.rec),
                         m_wipeProgByte, ProgByteAtDeletion(step), g)
  ELSE -1

\* C37: deleting or replacing a stored line never reads or writes a
\* Program Buffer index at or beyond the buffer's capacity, whatever the
\* occupied length and the position of the line.
C37_EditWithinBuffer ==
  [][ \A g \in Garbage : EditTop(last', g) < MAX_PROG_SIZE ]_vars

\* The same for the lines whose offset plus m_wipeProgByte is below the
\* capacity.
C37_EditWithinBufferNearStart ==
  [][ \A g \in Garbage :
        /\ EditTop(last', g) >= 0
        /\ FirstDeleted(last') + ProgByteAtDeletion(last') < MAX_PROG_SIZE
        => EditTop(last', g) < MAX_PROG_SIZE ]_vars

\* A stored line was deleted or replaced.
C37_Deleted ==
  \/ last.cmd = "del" /\ last.ok /\ Len(StoredLines) < last.n0
  \/ last.cmd = "line" /\ last.existed /\ last.saved

(***************************************************************************)
(* The EEPROM addresses save and erase write.                              *)
(***************************************************************************)
\* The program-directory region: EEPROM_PROG_LEN cells from
\* EEPROM_PROG_DIR_START, between the configuration bytes and the
\* reset-count byte.
DirRegion == EEPROM_PROG_DIR_START..(DirEnd - 1)

\* The addresses wipeDirFileSave hands to EEPROM.write: the entry from
\* m_wipeSaveAddr on, then the end mark at the new m_wipeSaveAddr.
SaveWrites(saveAddr, progByte) ==
  With([addr2 \in {(saveAddr + progByte + DIR_PROG_OFFS) % 65536} |->
      { (saveAddr + k) % 65536 : k \in 0..(DIR_PROG_OFFS + progByte - 1) }
        \cup {addr2, (addr2 + 1) % 65536}])

\* The addresses wipeDirFileErase hands to EEPROM.write: numBytesToMove
\* cells from the erased entry on, then the end mark.
EraseWrites(ee, saveAddr, dirSpace, name) ==
  With([f \in {wipeDirFileFind(ee, name)} |->
      IF f.entry = 0 THEN {}
      ELSE
  With([numBytesToMove \in {((EEPROM_PROG_LEN - dirSpace)
                               - (f.fileSize + DIR_PROG_OFFS)) % 65536} |->
  With([addr2 \in {(saveAddr - (f.fileSize + DIR_PROG_OFFS)) % 65536} |->
      { (f.entry + k) % 65536 : k \in 0..(numBytesToMove - 1) }
        \cup {addr2, (addr2 + 1) % 65536}])])])

\* The addresses the step wrote.
DirWrites(step) ==
  IF step.cmd = "save" /\ step.ok
    THEN SaveWrites(m_wipeSaveAddr, m_wipeProgByte)
  ELSE IF step.cmd = "erase" /\ step.ok
    THEN EraseWrites(eeprom, m_wipeSaveAddr, m_wipeDirSpace, step.name)
  ELSE {}

\* C38: save and erase only write EEPROM addresses inside the
\* program-directory region, the end mark included; they never write the
\* configuration bytes before the region or the reset-count byte after it.
C38_WritesInsideDirectory ==
  [][ DirWrites(last') \subseteq DirRegion ]_vars

\* The same for the saves that leave two cells or more free, and for
\* the erases.
C38_WritesInsideDirectoryWithRoom ==
  [][ \/ last'.cmd = "save" /\ m_wipeDirSpace' \in 2..EEPROM_PROG_LEN
      \/ last'.cmd = "erase"
      => DirWrites(last') \subseteq DirRegion ]_vars

\* A save and an erase have written.
C38_Written ==
  /\ last.cmd \in {"save", "erase"}
  /\ last.ok

(***************************************************************************)
(* The chain of records in the Program Buffer.                             *)
(***************************************************************************)
\* The walk from offset at that advances by each record's length field
\* meets length fields of 3 or more only and lands on progByte.
RECURSIVE WalkLands(_, _, _)
WalkLands(prog, progByte, at) ==
  IF at = progByte THEN TRUE
  ELSE IF at > progByte THEN FALSE
  ELSE With([n \in {Rd(prog, at + TKNZD_LEN_OFFS, 0)} |->
         n >= 3 /\ WalkLands(prog, progByte, at + n)])

InitStraight == InitFrom(StraightPrograms)

SpecStraight == InitStraight /\ [][NextRun]_vars

\* No stored line is a goto statement.
NoGoto ==
  \A i \in 1..Len(StoredLines) : StoredLines[i][TKNZD_STMT_OFFS + 1] # WIPE_GOTO

\* C40: a run of a stored program without a goto terminates: every turn
\* of the loop is at the start of a stored line and at a higher offset than
\* the turn before it in the run, so that every stored line is executed at
\* most once and in ascending order of offset and the turns of a run are
\* no more than the stored lines; a turn that was cancelled or failed is
\* followed by none; and the step that follows the last turn leaves the
\* loop with the run Done or Aborted.
C40_StraightRunTerminates ==
  [][ NoGoto /\ engine = "Executing" =>
        /\ last.cmd = "exec" /\ last'.cmd = "exec" => last'.at > last.at
        /\ Stopped(last) => last'.cmd # "exec"
        /\ last'.cmd = "exec" => last'.at \in RecordStarts
        /\ last'.cmd # "exec" =>
              /\ ~(m_wipeRunByte < m_wipeProgByte)
              /\ last'.cmd = "exit"
              /\ engine' \in {"Done", "Aborted"} ]_vars

\* A run of a program of three lines without a goto has ended after a
\* turn at each of them.
C40_RanToTheEnd ==
  /\ NoGoto
  /\ Len(StoredLines) = 3
  /\ engine = "Done"
  /\ Len(sink) >= 2


====
